---- MODULE Spec2Model ----
(***************************************************************************)
(* Table-driven approximate arithmetic of uno_fast_mul: the integer        *)
(* log-domain engine (FMT_Core.h in its generic and byte-wise forms, and   *)
(* tests/fast_mul.h), the float BTM engine (fast_float.c), the Log32       *)
(* ring algebra (FMT_Ring.h in its int16 and int32 layouts), the Q16.16    *)
(* fixed-point core (FMT_Fixed.h), atan2 (FMT_Trig.h) and the 3-D          *)
(* pipeline (FMT_3D.h).                                                    *)
(*                                                                         *)
(* The model checker's integers are 32-bit signed, so a uint32_t is kept   *)
(* as the pair <<high half-word, low half-word>>; an int32_t is an         *)
(* integer.                                                                *)
(***************************************************************************)
EXTENDS Integers, Sequences, FiniteSets, TLC

VARIABLES
    ia, ib,        \* integer engine: the two operands (uint32_t)
    iop, ires,     \* integer engine: last operation and its return value
    fa, fb,        \* float engine: operand bit patterns
    ftab,          \* float engine: contents of the four BTM tables
    fop, fres,     \* float engine: last operation and its trace
    layout,        \* Log32: width of the lval field (16 or 32)
    ra, rb,        \* Log32: the operands of the last operation
    rres,          \* Log32: the value last produced
    rop,           \* Log32: last operation
    rlin, rout,    \* Log32: argument of to_log32, result of from_log32
    rn,            \* Log32: operations applied since the last to_log32
    mM, mres, mop, \* Mat4: the matrix, the last product, the last operation
    pin,           \* pipeline: the arguments shared by both pipelines
    pstd, pap,     \* pipeline: result of pipeline_mvp / pipeline_mvp_fused
    qa, qb,        \* Q16.16 division: the operands (int32_t)
    qop, qres,     \* Q16.16 division: last operation, its return bit pattern
    aty, atx,      \* atan2_u16: the arguments
    attab,         \* atan2_u16: contents of atan_q15_table
    atop, atres,   \* atan2_u16: last operation and its return value
    cop,           \* per caller: the call in progress and its arguments
    cpc,           \* per caller: position in the code
    cloc,          \* per caller: local variables
    cres,          \* per caller: return value
    csteps,        \* per caller: statements executed so far
    bv, bop, bmsb, \* fast_msb32: argument, implementation called, result
    uarg, uop, ures \* one-argument functions: argument, function, result

matVars == <<mM, mres, mop>>
pipeVars == <<pin, pstd, pap>>
fixVars == <<qa, qb, qop, qres>>
trigVars == <<aty, atx, attab, atop, atres>>
stepVars == <<cop, cpc, cloc, cres, csteps>>
msbVars == <<bv, bop, bmsb>>
unaryVars == <<uarg, uop, ures>>
auxVars == <<matVars, pipeVars, fixVars, trigVars, stepVars, msbVars,
             unaryVars>>

vars == <<ia, ib, iop, ires, fa, fb, ftab, fop, fres,
          layout, ra, rb, rres, rop, rlin, rout, rn, auxVars>>
intVars == <<ia, ib, iop, ires>>
floatVars == <<fa, fb, ftab, fop, fres>>
ringVars == <<layout, ra, rb, rres, rop, rlin, rout, rn>>

----------------------------------------------------------------------------
(* Machine words *)

INT32_MAX == 2147483647
INT32_MIN == (-INT32_MAX) - 1
INT16_MIN == -32768
INT16_MAX == 32767
HALF == 65536

Pow2(k) == 2 ^ k

U32(hi, lo) == <<hi, lo>>
Hi(x) == x[1]
Lo(x) == x[2]
ZERO32 == U32(0, 0)
ONES32 == U32(65535, 65535)

\* a non-negative int as uint32_t
ToU32(n) == U32(n \div HALF, n % HALF)

\* (uint32_t)x of an int32_t x
CastU32(x) ==
    IF x >= 0 THEN ToU32(x)
    ELSE LET t == x - INT32_MIN IN U32(32768 + (t \div HALF), t % HALF)

\* (int32_t)u of a uint32_t u (two's complement)
CastI32(u) ==
    IF Hi(u) < 32768 THEN Hi(u) * HALF + Lo(u)
    ELSE INT32_MIN + ((Hi(u) - 32768) * HALF + Lo(u))

\* u >> s on uint32_t, 0 <= s <= 31
Shr32(u, s) ==
    IF s >= 16 THEN U32(0, Hi(u) \div Pow2(s - 16))
    ELSE U32(Hi(u) \div Pow2(s),
             (Hi(u) % Pow2(s)) * Pow2(16 - s) + (Lo(u) \div Pow2(s)))

\* u << s on uint32_t (bits shifted out are lost), 0 <= s <= 31
Shl32(u, s) ==
    IF s >= 16 THEN U32((Lo(u) * Pow2(s - 16)) % HALF, 0)
    ELSE U32(((Hi(u) * Pow2(s)) % HALF) + ((Lo(u) * Pow2(s)) \div HALF),
             (Lo(u) * Pow2(s)) % HALF)

\* the product of two 16-bit values, as uint32_t
Mul16x16(a, b) ==
    LET p1 == (a \div 256) * b
        p0 == (a % 256) * b
        t  == (p1 % 256) * 256 + (p0 % HALF)
        c  == (p0 \div HALF) + (t \div HALF)
    IN U32((p1 \div 256) + c, t % HALF)

Le32(x, y) == Hi(x) < Hi(y) \/ (Hi(x) = Hi(y) /\ Lo(x) <= Lo(y))

\* |x - y| of two uint32_t
AbsDiff32(x, y) ==
    LET big == IF Le32(x, y) THEN y ELSE x
        sml == IF Le32(x, y) THEN x ELSE y
    IN IF Lo(big) >= Lo(sml)
       THEN U32(Hi(big) - Hi(sml), Lo(big) - Lo(sml))
       ELSE U32(Hi(big) - Hi(sml) - 1, Lo(big) + HALF - Lo(sml))

\* k * x <= y for uint32_t x, y and a small factor k (k * x may exceed 32 bits)
ScaledLe(k, x, y) ==
    LET l == Lo(x) * k
        h == Hi(x) * k + (l \div HALF)
    IN h < Hi(y) \/ (h = Hi(y) /\ (l % HALF) <= Lo(y))

----------------------------------------------------------------------------
(* Tables *)

\* byte -> index of the highest set bit
msb_table ==
    [b \in 0..255 |->
        IF b < 2 THEN 0 ELSE IF b < 4 THEN 1 ELSE IF b < 8 THEN 2
        ELSE IF b < 16 THEN 3 ELSE IF b < 32 THEN 4 ELSE IF b < 64 THEN 5
        ELSE IF b < 128 THEN 6 ELSE 7]

\* round(256 * log2(m)) for the mantissas m = 128..255
Log2Ideal ==
  <<1792, 1795, 1798, 1801, 1803, 1806, 1809, 1812, 1814, 1817, 1820, 1822, 1825, 1828, 1830, 1833,
    1836, 1838, 1841, 1843, 1846, 1848, 1851, 1853, 1855, 1858, 1860, 1863, 1865, 1867, 1870, 1872,
    1874, 1877, 1879, 1881, 1884, 1886, 1888, 1890, 1892, 1895, 1897, 1899, 1901, 1903, 1905, 1908,
    1910, 1912, 1914, 1916, 1918, 1920, 1922, 1924, 1926, 1928, 1930, 1932, 1934, 1936, 1938, 1940,
    1942, 1944, 1946, 1947, 1949, 1951, 1953, 1955, 1957, 1959, 1961, 1962, 1964, 1966, 1968, 1970,
    1971, 1973, 1975, 1977, 1978, 1980, 1982, 1984, 1985, 1987, 1989, 1990, 1992, 1994, 1995, 1997,
    1999, 2000, 2002, 2004, 2005, 2007, 2008, 2010, 2012, 2013, 2015, 2016, 2018, 2020, 2021, 2023,
    2024, 2026, 2027, 2029, 2030, 2032, 2033, 2035, 2036, 2038, 2039, 2041, 2042, 2044, 2045, 2047>>

log2_table_q8 == [m \in 128..255 |-> Log2Ideal[m - 127]]

\* round(256 * 2^(f/256)) for f = 0..255
Exp2Ideal ==
  <<256, 257, 257, 258, 259, 259, 260, 261, 262, 262, 263, 264, 264, 265, 266, 267,
    267, 268, 269, 270, 270, 271, 272, 272, 273, 274, 275, 275, 276, 277, 278, 278,
    279, 280, 281, 281, 282, 283, 284, 285, 285, 286, 287, 288, 288, 289, 290, 291,
    292, 292, 293, 294, 295, 296, 296, 297, 298, 299, 300, 300, 301, 302, 303, 304,
    304, 305, 306, 307, 308, 309, 309, 310, 311, 312, 313, 314, 314, 315, 316, 317,
    318, 319, 320, 321, 321, 322, 323, 324, 325, 326, 327, 328, 328, 329, 330, 331,
    332, 333, 334, 335, 336, 337, 337, 338, 339, 340, 341, 342, 343, 344, 345, 346,
    347, 348, 349, 350, 350, 351, 352, 353, 354, 355, 356, 357, 358, 359, 360, 361,
    362, 363, 364, 365, 366, 367, 368, 369, 370, 371, 372, 373, 374, 375, 376, 377,
    378, 379, 380, 381, 382, 383, 384, 385, 386, 387, 388, 389, 391, 392, 393, 394,
    395, 396, 397, 398, 399, 400, 401, 402, 403, 405, 406, 407, 408, 409, 410, 411,
    412, 413, 415, 416, 417, 418, 419, 420, 421, 422, 424, 425, 426, 427, 428, 429,
    431, 432, 433, 434, 435, 436, 438, 439, 440, 441, 442, 444, 445, 446, 447, 448,
    450, 451, 452, 453, 454, 456, 457, 458, 459, 461, 462, 463, 464, 466, 467, 468,
    470, 471, 472, 473, 475, 476, 477, 478, 480, 481, 482, 484, 485, 486, 488, 489,
    490, 492, 493, 494, 496, 497, 498, 500, 501, 502, 504, 505, 506, 508, 509, 511>>

exp2_table_q8 == [f \in 0..255 |-> Exp2Ideal[f + 1]]

----------------------------------------------------------------------------
(* Integer log-domain engine, generic form *)

FMT_LOG_Q == 8

\* the third byte taken for the second
fast_msb32_byte8(v) ==
    IF v = ZERO32 THEN -1
    ELSE IF Hi(v) # 0
         THEN LET h == Hi(v)
              IN IF (h \div 256) # 0 THEN 24 + msb_table[h \div 256]
                 ELSE 8 + msb_table[h % 256]
         ELSE IF (Lo(v) \div 256) # 0 THEN 8 + msb_table[Lo(v) \div 256]
              ELSE msb_table[Lo(v) % 256]

fast_msb32(v) ==
    IF v = ZERO32 THEN -1
    ELSE IF Hi(v) # 0
         THEN LET h == Hi(v)
              IN IF (h \div 256) # 0 THEN 24 + msb_table[h \div 256]
                 ELSE 16 + msb_table[h % 256]
         ELSE IF (Lo(v) \div 256) # 0 THEN 8 + msb_table[Lo(v) \div 256]
              ELSE msb_table[Lo(v) % 256]

log2_q8(v) ==
    IF v = ZERO32 THEN INT32_MIN
    ELSE LET e == fast_msb32(v)
             m == IF e >= 7 THEN Lo(Shr32(v, e - 7)) % 256
                  ELSE Lo(Shl32(v, 7 - e)) % 256
         IN (e - 7) * Pow2(FMT_LOG_Q) + log2_table_q8[m]

exp2_q8(y) ==
    IF y = INT32_MIN THEN ZERO32
    ELSE LET ip == y \div Pow2(FMT_LOG_Q)
             fr == y % Pow2(FMT_LOG_Q)
             v  == ToU32(exp2_table_q8[fr])
         IN IF ip >= 0
            THEN IF ip > 31 THEN ONES32
                 ELSE IF ip >= FMT_LOG_Q THEN Shl32(v, ip - FMT_LOG_Q)
                 ELSE Shr32(v, FMT_LOG_Q - ip)
            ELSE LET s == FMT_LOG_Q - ip
                 IN IF s >= 31 THEN ZERO32 ELSE Shr32(v, s)

mul_u16_ap(a, b) ==
    IF a = 0 \/ b = 0 THEN ZERO32
    ELSE exp2_q8(log2_q8(ToU32(a)) + log2_q8(ToU32(b)))

\* the numerator tested before the divisor
div_u32_u16_ap_numfirst(n, d) ==
    IF n = ZERO32 THEN ZERO32
    ELSE IF d = 0 THEN ONES32
    ELSE exp2_q8(log2_q8(n) - log2_q8(ToU32(d)))

div_u32_u16_ap(n, d) ==
    IF d = 0 THEN ONES32
    ELSE IF n = ZERO32 THEN ZERO32
    ELSE exp2_q8(log2_q8(n) - log2_q8(ToU32(d)))

mul_u32_ap(a, b) ==
    IF a = ZERO32 \/ b = ZERO32 THEN ZERO32
    ELSE LET la == log2_q8(a)
             lb == log2_q8(b)
         IN exp2_q8(la + lb)

----------------------------------------------------------------------------
(* Integer log-domain engine, byte-wise form (uint8_t shift counts) *)

fast_msb32_bw(v) ==
    IF (Hi(v) \div 256) # 0 THEN 24 + msb_table[Hi(v) \div 256]
    ELSE IF (Hi(v) % 256) # 0 THEN 16 + msb_table[Hi(v) % 256]
    ELSE IF (Lo(v) \div 256) # 0 THEN 8 + msb_table[Lo(v) \div 256]
    ELSE IF (Lo(v) % 256) # 0 THEN msb_table[Lo(v) % 256]
    ELSE -1

\* the exponent biased by 8 instead of 7
log2_q8_bw_bias8(v) ==
    IF v = ZERO32 THEN INT32_MIN
    ELSE LET top == Hi(v) \div 256
             e == IF top # 0 THEN 24 + msb_table[top]
                  ELSE IF (Hi(v) % 256) # 0 THEN 16 + msb_table[Hi(v) % 256]
                  ELSE IF (Lo(v) \div 256) # 0 THEN 8 + msb_table[Lo(v) \div 256]
                  ELSE msb_table[Lo(v) % 256]
             m == IF top # 0
                  THEN (Hi(v) \div Pow2((e - 23) % 256)) % 256
                  ELSE IF (Hi(v) % 256) # 0
                  THEN (((Hi(v) % 256) * 256 + (Lo(v) \div 256))
                            \div Pow2((e - 15) % 256)) % 256
                  ELSE IF (Lo(v) \div 256) # 0
                  THEN (Lo(v) \div Pow2((e - 7) % 256)) % 256
                  ELSE ((Lo(v) % 256) * Pow2(7 - e)) % 256
         IN (e - 8) * Pow2(FMT_LOG_Q) + log2_table_q8[m]

log2_q8_bw(v) ==
    IF v = ZERO32 THEN INT32_MIN
    ELSE LET top == Hi(v) \div 256
             e == IF top # 0 THEN 24 + msb_table[top]
                  ELSE IF (Hi(v) % 256) # 0 THEN 16 + msb_table[Hi(v) % 256]
                  ELSE IF (Lo(v) \div 256) # 0 THEN 8 + msb_table[Lo(v) \div 256]
                  ELSE msb_table[Lo(v) % 256]
             m == IF top # 0
                  THEN (Hi(v) \div Pow2((e - 23) % 256)) % 256
                  ELSE IF (Hi(v) % 256) # 0
                  THEN (((Hi(v) % 256) * 256 + (Lo(v) \div 256))
                            \div Pow2((e - 15) % 256)) % 256
                  ELSE IF (Lo(v) \div 256) # 0
                  THEN (Lo(v) \div Pow2((e - 7) % 256)) % 256
                  ELSE ((Lo(v) % 256) * Pow2(7 - e)) % 256
         IN (e - 7) * Pow2(FMT_LOG_Q) + log2_table_q8[m]

exp2_q8_bw(y) ==
    IF y = INT32_MIN THEN ZERO32
    ELSE LET ip == y \div Pow2(FMT_LOG_Q)
             fr == y % 256
             v  == ToU32(exp2_table_q8[fr])
         IN IF ip < 0
            THEN LET s == (8 - ip) % 256
                 IN IF s >= 24 THEN ZERO32
                    ELSE IF s >= 16 THEN Shr32(Shr32(v, 16), s - 16)
                    ELSE IF s >= 8 THEN Shr32(Shr32(v, 8), s - 8)
                    ELSE Shr32(v, s)
            ELSE IF ip > 31 THEN ONES32
            ELSE IF ip >= 8
                 THEN LET s == (ip - 8) % 256
                      IN IF s >= 16 THEN Shl32(Shl32(v, 16), s - 16)
                         ELSE IF s >= 8 THEN Shl32(Shl32(v, 8), s - 8)
                         ELSE Shl32(v, s)
                 ELSE Shr32(v, (8 - ip) % 256)

\* the zero guard written with && instead of ||
mul_u16_ap_bw_andguard(a, b) ==
    IF a = 0 /\ b = 0 THEN ZERO32
    ELSE exp2_q8_bw(log2_q8_bw(ToU32(a)) + log2_q8_bw(ToU32(b)))

mul_u16_ap_bw(a, b) ==
    IF a = 0 \/ b = 0 THEN ZERO32
    ELSE exp2_q8_bw(log2_q8_bw(ToU32(a)) + log2_q8_bw(ToU32(b)))

div_u32_u16_ap_bw(n, d) ==
    IF d = 0 THEN ONES32
    ELSE IF n = ZERO32 THEN ZERO32
    ELSE exp2_q8_bw(log2_q8_bw(n) - log2_q8_bw(ToU32(d)))

mul_u32_ap_bw(a, b) ==
    IF a = ZERO32 \/ b = ZERO32 THEN ZERO32
    ELSE LET la == log2_q8_bw(a)
             lb == log2_q8_bw(b)
         IN exp2_q8_bw(la + lb)

----------------------------------------------------------------------------
(* 16-bit multiply of tests/fast_mul.h *)

fast_msb16(v) ==
    IF (v \div 256) # 0 THEN 8 + msb_table[v \div 256]
    ELSE msb_table[v % 256]

\* <<mant8, e_out>>
normalize_to_mant8(v) ==
    IF v = 0 THEN <<0, -127>>
    ELSE LET e == fast_msb16(v)
             tmp == (v * Pow2(15 - e)) \div 256
         IN <<tmp % 256, e>>

\* the exponent rebased by 6 instead of 7
fast_log2_q8_8_bias6(v) ==
    IF v = 0 THEN INT32_MIN
    ELSE LET n == normalize_to_mant8(v)
             log_m == log2_table_q8[n[1]]
         IN (n[2] - 6) * 256 + log_m

fast_log2_q8_8(v) ==
    IF v = 0 THEN INT32_MIN
    ELSE LET n == normalize_to_mant8(v)
             log_m == log2_table_q8[n[1]]
         IN (n[2] - 7) * 256 + log_m

fast_exp2_from_q8_8(log_q8_8) ==
    IF log_q8_8 <= -32768 THEN ZERO32
    ELSE LET integer == log_q8_8 \div 256
             frac == log_q8_8 % 256
             exp_frac == ToU32(exp2_table_q8[frac])
         IN IF integer >= 32 THEN ONES32
            ELSE IF integer >= 8 THEN Shl32(exp_frac, integer - 8)
            ELSE IF integer >= 0 THEN Shr32(exp_frac, 8 - integer)
            ELSE LET shift == -integer
                 IN IF shift >= 24 THEN ZERO32
                    ELSE Shr32(exp_frac, 8 + shift)

fast_log_mul_u16(a, b) ==
    IF a = 0 \/ b = 0 THEN ZERO32
    ELSE LET la == fast_log2_q8_8(a)
             lb == fast_log2_q8_8(b)
             sum == la + lb
         IN fast_exp2_from_q8_8(sum)

----------------------------------------------------------------------------
(* Float BTM engine.  A float's bits are [s: sign, e: biased exponent,     *)
(* m: 23-bit mantissa]; a returned bit pattern is <<bit 31, bits 30..0>>.  *)

RECURSIVE BitOr(_, _)
BitOr(x, y) ==
    IF x = 0 THEN y
    ELSE IF y = 0 THEN x
    ELSE (IF (x % 2) + (y % 2) > 0 THEN 1 ELSE 0) + 2 * BitOr(x \div 2, y \div 2)

T1Profiles == {"zero", "ramp", "max"}
T2Profiles == {"zero", "min", "max", "saw"}

\* contents of a 512-entry uint16_t coarse table
T1Table(p) ==
    [i \in 0..511 |->
        IF p = "zero" THEN 0 ELSE IF p = "max" THEN 65535 ELSE i * 128]

\* contents of a 512-entry int16_t correction table
T2Table(p) ==
    [i \in 0..511 |->
        IF p = "zero" THEN 0
        ELSE IF p = "min" THEN INT16_MIN
        ELSE IF p = "max" THEN INT16_MAX
        ELSE ((i % 32) - 16) * 4]

log2_t1(tab) == T1Table(tab[1])
log2_t2(tab) == T2Table(tab[2])
exp2_t1(tab) == T1Table(tab[1])
exp2_t2(tab) == T2Table(tab[2])

\* the sum converted to uint16_t without the clamp
btm_log2_wrap(mantissa_bits, tab) ==
    LET idx == (mantissa_bits \div Pow2(23 - 14)) % HALF
        i12 == idx \div 32
        i13 == BitOr((idx \div 1024) * 32, idx % 32)
        t1  == log2_t1(tab)[i12]
        t2  == log2_t2(tab)[i13]
        res == t1 + t2
    IN res % HALF

btm_log2(mantissa_bits, tab) ==
    LET idx == (mantissa_bits \div Pow2(23 - 14)) % HALF
        i12 == idx \div 32
        i13 == BitOr((idx \div 1024) * 32, idx % 32)
        t1  == log2_t1(tab)[i12]
        t2  == log2_t2(tab)[i13]
        res == t1 + t2
    IN IF res < 0 THEN 0 ELSE IF res > 65535 THEN 65535 ELSE res

\* the clamp to 65535 left out
btm_exp2_noclamp(log_frac, tab) ==
    LET idx == log_frac \div Pow2(16 - 14)
        i12 == idx \div 32
        i13 == BitOr((idx \div 1024) * 32, idx % 32)
        t1  == exp2_t1(tab)[i12]
        t2  == exp2_t2(tab)[i13]
        res0 == t1 + t2
        res == IF res0 < 0 THEN 0 ELSE res0
    IN res * 128

btm_exp2(log_frac, tab) ==
    LET idx == log_frac \div Pow2(16 - 14)
        i12 == idx \div 32
        i13 == BitOr((idx \div 1024) * 32, idx % 32)
        t1  == exp2_t1(tab)[i12]
        t2  == exp2_t2(tab)[i13]
        res0 == t1 + t2
        res == IF res0 < 0 THEN 0 ELSE IF res0 > 65535 THEN 65535 ELSE res0
    IN res * 128

Xor1(x, y) == (x + y) % 2
FZERO == <<0, 0>>
FInf(sr) == <<sr, 255 * Pow2(23)>>
AbsIsZero(x) == x.e = 0 /\ x.m = 0

NoLocals == [la |-> 0, lb |-> 0, carry |-> 0, lfrac |-> 0, er |-> 0, mr |-> 0, sr |-> 0]

\* the carry of the log sum not added to the exponent
fast_mul_f32_nocarry(a, b, tab) ==
    IF AbsIsZero(a) \/ AbsIsZero(b)
    THEN [ret |-> FZERO, path |-> "zero_operand"] @@ NoLocals
    ELSE LET sa == a.s
             sb == b.s
             ea == a.e
             eb == b.e
             la == btm_log2(a.m, tab)
             lb == btm_log2(b.m, tab)
             lsum == la + lb
             carry == lsum \div HALF
             lfrac == lsum % HALF
             er == ea + eb - 127
             mr == btm_exp2(lfrac, tab)
             sr == Xor1(sa, sb)
             loc == [la |-> la, lb |-> lb, carry |-> carry, lfrac |-> lfrac,
                     er |-> er, mr |-> mr, sr |-> sr]
         IN IF er <= 0 THEN [ret |-> FZERO, path |-> "flush"] @@ loc
            ELSE IF er >= 255 THEN [ret |-> FInf(sr), path |-> "inf"] @@ loc
            ELSE [ret |-> <<sr, BitOr(er * Pow2(23), mr)>>, path |-> "normal"] @@ loc

\* fast_mul_f32 with its locals: ret is the returned bit pattern
fast_mul_f32(a, b, tab) ==
    IF AbsIsZero(a) \/ AbsIsZero(b)
    THEN [ret |-> FZERO, path |-> "zero_operand"] @@ NoLocals
    ELSE LET sa == a.s
             sb == b.s
             ea == a.e
             eb == b.e
             la == btm_log2(a.m, tab)
             lb == btm_log2(b.m, tab)
             lsum == la + lb
             carry == lsum \div HALF
             lfrac == lsum % HALF
             er == ea + eb - 127 + carry
             mr == btm_exp2(lfrac, tab)
             sr == Xor1(sa, sb)
             loc == [la |-> la, lb |-> lb, carry |-> carry, lfrac |-> lfrac,
                     er |-> er, mr |-> mr, sr |-> sr]
         IN IF er <= 0 THEN [ret |-> FZERO, path |-> "flush"] @@ loc
            ELSE IF er >= 255 THEN [ret |-> FInf(sr), path |-> "inf"] @@ loc
            ELSE [ret |-> <<sr, BitOr(er * Pow2(23), mr)>>, path |-> "normal"] @@ loc

\* the result sign taken from the dividend alone
fast_div_f32_signa(a, b, tab) ==
    IF AbsIsZero(a)
    THEN [ret |-> FZERO, path |-> "zero_operand"] @@ NoLocals
    ELSE IF AbsIsZero(b)
    THEN [ret |-> FInf(a.s), path |-> "zero_divisor"] @@ NoLocals
    ELSE LET sa == a.s
             ea == a.e
             eb == b.e
             la == btm_log2(a.m, tab)
             lb == btm_log2(b.m, tab)
             ldiff0 == la - lb
             ldiff == IF ldiff0 < 0 THEN ldiff0 + 65536 ELSE ldiff0
             carry == IF ldiff0 < 0 THEN -1 ELSE 0
             lfrac == ldiff % HALF
             er == ea - eb + 127 + carry
             mr == btm_exp2(lfrac, tab)
             sr == sa
             loc == [la |-> la, lb |-> lb, carry |-> carry, lfrac |-> lfrac,
                     er |-> er, mr |-> mr, sr |-> sr]
         IN IF er <= 0 THEN [ret |-> FZERO, path |-> "flush"] @@ loc
            ELSE IF er >= 255 THEN [ret |-> FInf(sr), path |-> "inf"] @@ loc
            ELSE [ret |-> <<sr, BitOr(er * Pow2(23), mr)>>, path |-> "normal"] @@ loc

\* the borrow of a negative log difference not taken from the exponent
fast_div_f32_noborrow(a, b, tab) ==
    IF AbsIsZero(a)
    THEN [ret |-> FZERO, path |-> "zero_operand"] @@ NoLocals
    ELSE IF AbsIsZero(b)
    THEN [ret |-> FInf(Xor1(a.s, b.s)), path |-> "zero_divisor"] @@ NoLocals
    ELSE LET sa == a.s
             sb == b.s
             ea == a.e
             eb == b.e
             la == btm_log2(a.m, tab)
             lb == btm_log2(b.m, tab)
             ldiff0 == la - lb
             ldiff == IF ldiff0 < 0 THEN ldiff0 + 65536 ELSE ldiff0
             carry == 0
             lfrac == ldiff % HALF
             er == ea - eb + 127 + carry
             mr == btm_exp2(lfrac, tab)
             sr == Xor1(sa, sb)
             loc == [la |-> la, lb |-> lb, carry |-> carry, lfrac |-> lfrac,
                     er |-> er, mr |-> mr, sr |-> sr]
         IN IF er <= 0 THEN [ret |-> FZERO, path |-> "flush"] @@ loc
            ELSE IF er >= 255 THEN [ret |-> FInf(sr), path |-> "inf"] @@ loc
            ELSE [ret |-> <<sr, BitOr(er * Pow2(23), mr)>>, path |-> "normal"] @@ loc

\* fast_div_f32 with its locals: ret is the returned bit pattern
fast_div_f32(a, b, tab) ==
    IF AbsIsZero(a)
    THEN [ret |-> FZERO, path |-> "zero_operand"] @@ NoLocals
    ELSE IF AbsIsZero(b)
    THEN [ret |-> FInf(Xor1(a.s, b.s)), path |-> "zero_divisor"] @@ NoLocals
    ELSE LET sa == a.s
             sb == b.s
             ea == a.e
             eb == b.e
             la == btm_log2(a.m, tab)
             lb == btm_log2(b.m, tab)
             ldiff0 == la - lb
             ldiff == IF ldiff0 < 0 THEN ldiff0 + 65536 ELSE ldiff0
             carry == IF ldiff0 < 0 THEN -1 ELSE 0
             lfrac == ldiff % HALF
             er == ea - eb + 127 + carry
             mr == btm_exp2(lfrac, tab)
             sr == Xor1(sa, sb)
             loc == [la |-> la, lb |-> lb, carry |-> carry, lfrac |-> lfrac,
                     er |-> er, mr |-> mr, sr |-> sr]
         IN IF er <= 0 THEN [ret |-> FZERO, path |-> "flush"] @@ loc
            ELSE IF er >= 255 THEN [ret |-> FInf(sr), path |-> "inf"] @@ loc
            ELSE [ret |-> <<sr, BitOr(er * Pow2(23), mr)>>, path |-> "normal"] @@ loc

----------------------------------------------------------------------------
(* Log32 ring algebra.  w is the width of the lval field: 16 for the       *)
(* int16_t layout, 32 for the int32_t layout.  Arithmetic that leaves the  *)
(* field wraps (two's complement).                                         *)

\* round(256 * log2(1 + 2^(-i/32))) for i = 0..255
LseIdeal ==
  <<256, 252, 248, 244, 240, 237, 233, 229, 225, 222, 218, 215, 211, 208, 204, 201,
    198, 194, 191, 188, 185, 181, 178, 175, 172, 169, 166, 164, 161, 158, 155, 152,
    150, 147, 144, 142, 139, 137, 134, 132, 130, 127, 125, 123, 120, 118, 116, 114,
    112, 110, 108, 106, 104, 102, 100, 98, 96, 94, 93, 91, 89, 87, 86, 84,
    82, 81, 79, 78, 76, 75, 73, 72, 70, 69, 68, 66, 65, 64, 63, 61,
    60, 59, 58, 57, 55, 54, 53, 52, 51, 50, 49, 48, 47, 46, 45, 44,
    44, 43, 42, 41, 40, 39, 38, 38, 37, 36, 35, 35, 34, 33, 33, 32,
    31, 31, 30, 29, 29, 28, 28, 27, 26, 26, 25, 25, 24, 24, 23, 23,
    22, 22, 21, 21, 21, 20, 20, 19, 19, 19, 18, 18, 17, 17, 17, 16,
    16, 16, 15, 15, 15, 14, 14, 14, 13, 13, 13, 13, 12, 12, 12, 12,
    11, 11, 11, 11, 10, 10, 10, 10, 10, 9, 9, 9, 9, 9, 8, 8,
    8, 8, 8, 8, 7, 7, 7, 7, 7, 7, 7, 6, 6, 6, 6, 6,
    6, 6, 5, 5, 5, 5, 5, 5, 5, 5, 5, 5, 4, 4, 4, 4,
    4, 4, 4, 4, 4, 4, 4, 3, 3, 3, 3, 3, 3, 3, 3, 3,
    3, 3, 3, 3, 3, 3, 3, 2, 2, 2, 2, 2, 2, 2, 2, 2,
    2, 2, 2, 2, 2, 2, 2, 2, 2, 2, 2, 2, 2, 2, 2, 1>>

lse_table_q8 == [i \in 0..255 |-> LseIdeal[i + 1]]

Abs(n) == IF n < 0 THEN -n ELSE n

\* -x on int32_t
Neg32(x) == IF x = INT32_MIN THEN INT32_MIN ELSE -x

AddOverflows32(x, y) ==
    \/ (x > 0 /\ y > 0 /\ x > INT32_MAX - y)
    \/ (x < 0 /\ y < 0 /\ x < INT32_MIN - y)

\* x + y on int32_t
Add32(x, y) ==
    IF ~AddOverflows32(x, y) THEN x + y
    ELSE IF x > 0 THEN (x + INT32_MIN) + (y + INT32_MIN)
    ELSE (x - INT32_MIN) + (y - INT32_MIN)

\* x - y on int32_t
Sub32(x, y) ==
    IF y = INT32_MIN
    THEN (IF x >= 0 THEN x + INT32_MIN ELSE x - INT32_MIN)
    ELSE Add32(x, -y)

\* (int16_t)n
Narrow16(n) == ((n + 32768) % HALF) - 32768

Sentinel(w) == IF w = 16 THEN INT16_MIN ELSE INT32_MIN
MaxLval(w) == IF w = 16 THEN INT16_MAX ELSE INT32_MAX
AddL(w, x, y) == IF w = 16 THEN Narrow16(x + y) ELSE Add32(x, y)
SubL(w, x, y) == IF w = 16 THEN Narrow16(x - y) ELSE Sub32(x, y)
NarrowL(w, x) == IF w = 16 THEN Narrow16(x) ELSE x

Log32(l, s) == [lval |-> l, sign |-> s]

to_log32(v, w) ==
    IF v = 0 THEN Log32(Sentinel(w), 0)
    ELSE IF v > 0 THEN Log32(NarrowL(w, log2_q8(CastU32(v))), 1)
    ELSE Log32(NarrowL(w, log2_q8(CastU32(Neg32(v)))), -1)

\* the negation for a negative sign left out
from_log32_nosign(l) ==
    IF l.sign = 0 THEN 0
    ELSE CastI32(exp2_q8(l.lval))

from_log32(l) ==
    IF l.sign = 0 THEN 0
    ELSE LET res == CastI32(exp2_q8(l.lval))
         IN IF l.sign > 0 THEN res ELSE Neg32(res)

\* the magnitudes subtracted, as in log32_div
log32_mul_subs(a, b, w) ==
    LET sign == a.sign * b.sign
    IN IF sign = 0 THEN Log32(Sentinel(w), sign)
       ELSE Log32(SubL(w, a.lval, b.lval), sign)

log32_mul(a, b, w) ==
    LET sign == a.sign * b.sign
    IN IF sign = 0 THEN Log32(Sentinel(w), sign)
       ELSE Log32(AddL(w, a.lval, b.lval), sign)

\* the magnitudes added, as in log32_mul
log32_div_adds(a, b, w) ==
    IF b.sign = 0
    THEN Log32(MaxLval(w), IF a.sign >= 0 THEN 1 ELSE -1)
    ELSE LET sign == a.sign * b.sign
         IN IF a.sign = 0 THEN Log32(Sentinel(w), sign)
            ELSE Log32(AddL(w, a.lval, b.lval), sign)

log32_div(a, b, w) ==
    IF b.sign = 0
    THEN Log32(MaxLval(w), IF a.sign >= 0 THEN 1 ELSE -1)
    ELSE LET sign == a.sign * b.sign
         IN IF a.sign = 0 THEN Log32(Sentinel(w), sign)
            ELSE Log32(SubL(w, a.lval, b.lval), sign)

\* (float)lval * 2^j truncated toward zero, for the lval and j for which the
\* float product is exact
ScaleTrunc(lval, j) ==
    IF j >= 0 THEN lval * Pow2(j)
    ELSE IF lval >= 0 THEN lval \div Pow2(-j)
    ELSE -((-lval) \div Pow2(-j))

\* the conversion of a.lval * 2^j back to the lval field is defined
PowDefined(a, j, w) ==
    \/ a.sign = 0
    \/ /\ a.lval >= -Pow2(24) /\ a.lval <= Pow2(24)
       /\ j < w
       /\ (j > 0 => /\ a.lval <= MaxLval(w) \div Pow2(j)
                    /\ a.lval >= Sentinel(w) \div Pow2(j))

\* log32_pow(a, k) for k = 2^j
log32_pow(a, j, w) ==
    IF a.sign = 0 THEN Log32(Sentinel(w), 0)
    ELSE Log32(ScaleTrunc(a.lval, j), 1)

log32_add(a, b, w) ==
    IF a.sign = 0 THEN b
    ELSE IF b.sign = 0 THEN a
    ELSE IF a.sign = b.sign
    THEN LET diff == SubL(w, a.lval, b.lval)
         IN IF diff >= 0
            THEN LET idx0 == (diff \div 8) % HALF
                     table_idx == IF idx0 > 255 THEN 255 ELSE idx0
                 IN Log32(AddL(w, a.lval, lse_table_q8[table_idx]), a.sign)
            ELSE LET ndiff == IF w = 16 THEN -diff ELSE Neg32(diff)
                     idx0 == (ndiff \div 8) % HALF
                     table_idx == IF idx0 > 255 THEN 255 ELSE idx0
                 IN Log32(AddL(w, b.lval, lse_table_q8[table_idx]), a.sign)
    ELSE to_log32(Add32(from_log32(a), from_log32(b)), w)

----------------------------------------------------------------------------
(* Integer engine: operands and operations *)

SmallMax == 12

Small16 == 0..SmallMax
Wide16 == {100, 255, 256, 257, 500, 511, 1023, 30000, 32768, 46341, 65535}
Wide32 == {U32(1, 0), U32(1, 34464), U32(32767, 65535), U32(32768, 0), ONES32}

Operands32 == {ToU32(n) : n \in Small16 \cup Wide16} \cup Wide32

IntOps == {"mul_u16_ap", "mul_u32_ap", "div_u32_u16_ap",
           "mul_u16_ap_bw", "mul_u32_ap_bw", "div_u32_u16_ap_bw",
           "fast_log_mul_u16"}

Is16(u) == Hi(u) = 0

RingIdle ==
    /\ layout = 32
    /\ ra = [lval |-> INT32_MIN, sign |-> 0]
    /\ rb = [lval |-> INT32_MIN, sign |-> 0]
    /\ rres = [lval |-> INT32_MIN, sign |-> 0]
    /\ rop = "none" /\ rlin = 0 /\ rout = 0 /\ rn = 0

IntIdle == ia = ZERO32 /\ ib = ZERO32 /\ iop = "none" /\ ires = ZERO32

FloatIdle ==
    /\ fa = [s |-> 0, e |-> 0, m |-> 0]
    /\ fb = [s |-> 0, e |-> 0, m |-> 0]
    /\ ftab = <<"zero", "zero">>
    /\ fop = "none"
    /\ fres = [ret |-> FZERO, path |-> "none"] @@ NoLocals

----------------------------------------------------------------------------
(* Idle values of the fixed-point, trig, 3-D and call state *)

Callers == {1, 2}

ZeroMat == [i \in 0..3 |-> [j \in 0..3 |-> 0]]

MatIdle == mM = ZeroMat /\ mres = ZeroMat /\ mop = "none"

NoProjection == [by |-> "none", x |-> 0, y |-> 0, z |-> 0, denom |-> 0]

PipeIdle ==
    /\ pin = [v |-> <<0, 0, 0>>, scale |-> 0, ax |-> 0, ay |-> 0, az |-> 0,
              trans |-> <<0, 0, 0>>, focal |-> 0]
    /\ pstd = NoProjection
    /\ pap = NoProjection

FixIdle == qa = 0 /\ qb = 0 /\ qop = "none" /\ qres = ZERO32

TrigIdle ==
    aty = 0 /\ atx = 0 /\ attab = "zero" /\ atop = "none" /\ atres = 0

FloatPosZero == [s |-> 0, e |-> 0, m |-> 0]

NoCall == [op |-> "none", a |-> ZERO32, b |-> ZERO32,
           x |-> FloatPosZero, y |-> FloatPosZero, tab |-> <<"zero", "zero">>,
           A |-> ZeroMat, B |-> ZeroMat]
NoLocal == [e |-> 0, la |-> 0, lb |-> 0, i |-> 0, j |-> 0,
            row |-> ZeroMat[0], R |-> ZeroMat]
NoReturn == [u |-> ZERO32, R |-> ZeroMat]

StepIdle ==
    /\ cop = [c \in Callers |-> NoCall]
    /\ cpc = [c \in Callers |-> "done"]
    /\ cloc = [c \in Callers |-> NoLocal]
    /\ cres = [c \in Callers |-> NoReturn]
    /\ csteps = [c \in Callers |-> 0]

MsbIdle == bv = ZERO32 /\ bop = "none" /\ bmsb = -1

UnaryIdle == uarg = 0 /\ uop = "none" /\ ures = 0

AuxIdle ==
    MatIdle /\ PipeIdle /\ FixIdle /\ TrigIdle /\ StepIdle /\ MsbIdle
    /\ UnaryIdle

InitInt ==
    /\ ia \in Operands32
    /\ ib \in Operands32
    /\ iop = "none"
    /\ ires = ZERO32
    /\ FloatIdle
    /\ RingIdle
    /\ AuxIdle

MulU16 ==
    /\ Is16(ia) /\ Is16(ib)
    /\ ires' = mul_u16_ap(Lo(ia), Lo(ib))
    /\ iop' = "mul_u16_ap"
    /\ UNCHANGED <<ia, ib, floatVars, ringVars, auxVars>>

MulU32 ==
    /\ ires' = mul_u32_ap(ia, ib)
    /\ iop' = "mul_u32_ap"
    /\ UNCHANGED <<ia, ib, floatVars, ringVars, auxVars>>

DivU32U16 ==
    /\ Is16(ib)
    /\ ires' = div_u32_u16_ap(ia, Lo(ib))
    /\ iop' = "div_u32_u16_ap"
    /\ UNCHANGED <<ia, ib, floatVars, ringVars, auxVars>>

MulU16Bw ==
    /\ Is16(ia) /\ Is16(ib)
    /\ ires' = mul_u16_ap_bw(Lo(ia), Lo(ib))
    /\ iop' = "mul_u16_ap_bw"
    /\ UNCHANGED <<ia, ib, floatVars, ringVars, auxVars>>

MulU32Bw ==
    /\ ires' = mul_u32_ap_bw(ia, ib)
    /\ iop' = "mul_u32_ap_bw"
    /\ UNCHANGED <<ia, ib, floatVars, ringVars, auxVars>>

DivU32U16Bw ==
    /\ Is16(ib)
    /\ ires' = div_u32_u16_ap_bw(ia, Lo(ib))
    /\ iop' = "div_u32_u16_ap_bw"
    /\ UNCHANGED <<ia, ib, floatVars, ringVars, auxVars>>

FastLogMulU16 ==
    /\ Is16(ia) /\ Is16(ib)
    /\ ires' = fast_log_mul_u16(Lo(ia), Lo(ib))
    /\ iop' = "fast_log_mul_u16"
    /\ UNCHANGED <<ia, ib, floatVars, ringVars, auxVars>>

NextInt ==
    \/ MulU16 \/ MulU32 \/ DivU32U16
    \/ MulU16Bw \/ MulU32Bw \/ DivU32U16Bw
    \/ FastLogMulU16

SpecInt == InitInt /\ [][NextInt]_vars

IsMulOp == iop \in {"mul_u16_ap", "mul_u32_ap", "mul_u16_ap_bw",
                    "mul_u32_ap_bw", "fast_log_mul_u16"}
IsMul16Op == iop \in {"mul_u16_ap", "mul_u16_ap_bw", "fast_log_mul_u16"}
IsDivOp == iop \in {"div_u32_u16_ap", "div_u32_u16_ap_bw"}

\* C1: every approximate multiply returns exactly 0 when either operand is 0
C1_MulZero ==
    (IsMulOp /\ (ia = ZERO32 \/ ib = ZERO32)) => ires = ZERO32

C1_Witness ==
    /\ iop = "mul_u32_ap_bw" /\ ia = ZERO32 /\ ib = ONES32 /\ ires = ZERO32

Exact16 == Mul16x16(Lo(ia), Lo(ib))
MulErr == AbsDiff32(ires, Exact16)
NonzeroPair16 == IsMul16Op /\ ia # ZERO32 /\ ib # ZERO32

\* C2 (as stated): for all nonzero 16-bit a, b the log-domain multiply is
\* within 2% of a*b
C2_Within2Percent ==
    NonzeroPair16 => ScaledLe(50, MulErr, Exact16)

\* C2 (amended): for all nonzero 16-bit a, b the log-domain multiply is within
\* 4% of a*b, and within 2% for every pair other than 5*5
C2_Within4Percent ==
    NonzeroPair16 =>
        /\ ScaledLe(25, MulErr, Exact16)
        /\ (<<Lo(ia), Lo(ib)>> # <<5, 5>> => ScaledLe(50, MulErr, Exact16))

C2_Witness ==
    /\ iop = "fast_log_mul_u16" /\ Lo(ia) = 5 /\ Lo(ib) = 5
    /\ ires = ToU32(24)

\* C3 (as stated): div_u32_u16_ap(n, d) is 0 whenever n = 0, for every d, and
\* all-ones when d = 0 and n # 0
C3_ZeroNumeratorFirst ==
    IsDivOp =>
        /\ (ia = ZERO32 => ires = ZERO32)
        /\ ((ib = ZERO32 /\ ia # ZERO32) => ires = ONES32)

\* C3 (amended): div_u32_u16_ap(n, d) is all-ones whenever d = 0, for every n
\* (n = 0 included), and 0 when n = 0 and d # 0
C3_ZeroDivisorFirst ==
    IsDivOp =>
        /\ (ib = ZERO32 => ires = ONES32)
        /\ ((ia = ZERO32 /\ ib # ZERO32) => ires = ZERO32)

C3_Witness ==
    /\ iop = "div_u32_u16_ap" /\ ia = ZERO32 /\ ib = ZERO32 /\ ires = ONES32

----------------------------------------------------------------------------
(* Float engine: operands and operations *)

FloatExps == {0, 1, 2, 126, 127, 128, 254, 255}
FloatMants == {0, 1, 4194304, 6291456, 8388607}
FloatBits == [s : {0, 1}, e : FloatExps, m : FloatMants]

InitFloat ==
    /\ fa \in FloatBits
    /\ fb \in FloatBits
    /\ ftab \in T1Profiles \X T2Profiles
    /\ fop = "none"
    /\ fres = [ret |-> FZERO, path |-> "none"] @@ NoLocals
    /\ IntIdle
    /\ RingIdle
    /\ AuxIdle

FastMulF32 ==
    /\ fres' = fast_mul_f32(fa, fb, ftab)
    /\ fop' = "fast_mul_f32"
    /\ UNCHANGED <<fa, fb, ftab, intVars, ringVars, auxVars>>

FastDivF32 ==
    /\ fres' = fast_div_f32(fa, fb, ftab)
    /\ fop' = "fast_div_f32"
    /\ UNCHANGED <<fa, fb, ftab, intVars, ringVars, auxVars>>

NextFloat == FastMulF32 \/ FastDivF32

SpecFloat == InitFloat /\ [][NextFloat]_vars

RetSign == fres.ret[1]
RetExp == fres.ret[2] \div Pow2(23)
RetMant == fres.ret[2] % Pow2(23)

FiniteNonzero(x) == x.e # 255 /\ ~AbsIsZero(x)
IsNaN(x) == x.e = 255 /\ x.m # 0
FloatCalled == fop \in {"fast_mul_f32", "fast_div_f32"}

\* C4: for finite nonzero a, b whose result exponent lies in 1..254, the sign
\* bit of fast_mul_f32(a,b) and of fast_div_f32(a,b) is sign(a) XOR sign(b)
C4_SignXor ==
    (FloatCalled /\ FiniteNonzero(fa) /\ FiniteNonzero(fb)
        /\ fres.er \in 1..254)
    => RetSign = Xor1(fa.s, fb.s)

C4_Witness ==
    /\ fop = "fast_div_f32" /\ fa.s = 1 /\ fb.s = 0
    /\ FiniteNonzero(fa) /\ FiniteNonzero(fb)
    /\ fres.er \in 1..254 /\ RetSign = 1 /\ RetExp = fres.er

\* the exponent C5 states, from the operands and the two mantissa logs
C5_Carry == IF btm_log2(fa.m, ftab) + btm_log2(fb.m, ftab) > 65535 THEN 1 ELSE 0
C5_Exp == fa.e + fb.e - 127 + C5_Carry

\* C5: for nonzero operands fast_mul_f32 forms the exponent
\* exp_a + exp_b - 127 + carry, carry being 1 exactly when the two mantissa
\* logs sum beyond 65535; it returns zero when that is <= 0, signed infinity
\* when it is >= 255, and else a value with exactly that exponent field
C5_MulExponent ==
    (fop = "fast_mul_f32" /\ ~AbsIsZero(fa) /\ ~AbsIsZero(fb)) =>
        /\ fres.carry = C5_Carry
        /\ fres.er = C5_Exp
        /\ (C5_Exp <= 0 => fres.ret = FZERO)
        /\ (C5_Exp >= 255 =>
                RetExp = 255 /\ RetMant = 0 /\ RetSign = Xor1(fa.s, fb.s))
        /\ (C5_Exp \in 1..254 => RetExp = C5_Exp)

C5_Witness ==
    /\ fop = "fast_mul_f32" /\ ~AbsIsZero(fa) /\ ~AbsIsZero(fb)
    /\ fres.carry = 1 /\ fres.er = 128 /\ RetExp = 128

\* C6: no result of fast_mul_f32 or fast_div_f32 is a subnormal, a result is
\* a NaN pattern only if an input is one, and the mantissa field from
\* btm_exp2 stays below 2^23
C6_NoSubnormalNoNaN ==
    FloatCalled =>
        /\ ~(RetExp = 0 /\ RetMant # 0)
        /\ ((RetExp = 255 /\ RetMant # 0) => (IsNaN(fa) \/ IsNaN(fb)))
        /\ fres.mr < Pow2(23)
        /\ (fres.path = "normal" => RetExp = fres.er /\ RetMant = fres.mr)

C6_Witness ==
    /\ fop = "fast_mul_f32" /\ fres.path = "normal"
    /\ fres.mr = 65535 * 128 /\ RetMant = 65535 * 128 /\ RetExp = fres.er

\* C7: fast_div_f32 returns 0 for a = +-0 (also when b = +-0), infinity signed
\* sign(a) XOR sign(b) for b = +-0 and a nonzero, and else normalizes a
\* negative la - lb by adding 65536 with a borrow of 1 from ea - eb + 127, so
\* that the fraction given to btm_exp2 lies in 0..65535
C7_DivCases ==
    fop = "fast_div_f32" =>
        LET la == btm_log2(fa.m, ftab)
            lb == btm_log2(fb.m, ftab)
        IN /\ (AbsIsZero(fa) => fres.ret = FZERO)
           /\ ((AbsIsZero(fb) /\ ~AbsIsZero(fa)) =>
                  fres.ret = <<Xor1(fa.s, fb.s), 255 * Pow2(23)>>)
           /\ ((~AbsIsZero(fa) /\ ~AbsIsZero(fb)) =>
                  /\ fres.lfrac \in 0..65535
                  /\ (la < lb =>
                        /\ fres.lfrac = la - lb + 65536
                        /\ fres.er = fa.e - fb.e + 127 - 1)
                  /\ (la >= lb =>
                        /\ fres.lfrac = la - lb
                        /\ fres.er = fa.e - fb.e + 127))

C7_Witness ==
    /\ fop = "fast_div_f32" /\ ~AbsIsZero(fa) /\ ~AbsIsZero(fb)
    /\ fres.carry = -1 /\ fres.lfrac > 0 /\ fres.path = "normal"

C7_WitnessZeroByZero ==
    /\ fop = "fast_div_f32" /\ AbsIsZero(fa) /\ AbsIsZero(fb) /\ fres.ret = FZERO

----------------------------------------------------------------------------
(* Log32: values and operations *)

MaxRingOps == 2
TripSmall == 40

RingInputs == {0, 1, -1, 2, 3, 65536, -65536, INT32_MAX, INT32_MIN}
PowExps == {-1, 1, 3, 7, 23}
TripInputs ==
    (-TripSmall..TripSmall)
    \cup {100, 200, 255, 256, 257, 511, 65535, 65536, 16777215, 16777216,
          1073741824, 1077936127, INT32_MAX,
          -255, -256, -257, -65535, -65537, -1073741824, -INT32_MAX, INT32_MIN}

InitRing ==
    /\ layout \in {16, 32}
    /\ ra = Log32(Sentinel(layout), 0)
    /\ rb = Log32(Sentinel(layout), 0)
    /\ rres = Log32(Sentinel(layout), 0)
    /\ rop = "none" /\ rlin = 0 /\ rout = 0 /\ rn = 0
    /\ IntIdle
    /\ FloatIdle
    /\ AuxIdle

ToLog32In(V) ==
    \E v \in V :
        /\ rlin' = v
        /\ rres' = to_log32(v, layout)
        /\ rop' = "to_log32"
        /\ rout' = 0
        /\ rn' = 0
        /\ ra' = Log32(Sentinel(layout), 0)
        /\ rb' = Log32(Sentinel(layout), 0)
        /\ UNCHANGED <<layout, intVars, floatVars, auxVars>>

ToLog32 == ToLog32In(RingInputs)
ToLog32Trip == ToLog32In(TripInputs)

FromLog32 ==
    /\ rout' = from_log32(rres)
    /\ rop' = "from_log32"
    /\ UNCHANGED <<layout, ra, rb, rres, rlin, rn, intVars, floatVars, auxVars>>

\* a second operand: the value last produced, or a freshly converted one
Operand2 == {rres} \cup {to_log32(v, layout) : v \in RingInputs}

Log32Mul ==
    /\ rn < MaxRingOps
    /\ \E y \in Operand2 :
        /\ ra' = rres /\ rb' = y
        /\ rres' = log32_mul(rres, y, layout)
    /\ rop' = "log32_mul"
    /\ rn' = rn + 1
    /\ rout' = 0
    /\ UNCHANGED <<layout, rlin, intVars, floatVars, auxVars>>

Log32Div ==
    /\ rn < MaxRingOps
    /\ \E y \in Operand2 :
        /\ ra' = rres /\ rb' = y
        /\ rres' = log32_div(rres, y, layout)
    /\ rop' = "log32_div"
    /\ rn' = rn + 1
    /\ rout' = 0
    /\ UNCHANGED <<layout, rlin, intVars, floatVars, auxVars>>

Log32Pow ==
    /\ rn < MaxRingOps
    /\ \E j \in PowExps :
        /\ PowDefined(rres, j, layout)
        /\ ra' = rres /\ rb' = Log32(Sentinel(layout), 0)
        /\ rres' = log32_pow(rres, j, layout)
    /\ rop' = "log32_pow"
    /\ rn' = rn + 1
    /\ rout' = 0
    /\ UNCHANGED <<layout, rlin, intVars, floatVars, auxVars>>

Log32Add ==
    /\ rn < MaxRingOps
    /\ \E y \in Operand2 :
        /\ ra' = rres /\ rb' = y
        /\ rres' = log32_add(rres, y, layout)
    /\ rop' = "log32_add"
    /\ rn' = rn + 1
    /\ rout' = 0
    /\ UNCHANGED <<layout, rlin, intVars, floatVars, auxVars>>

NextRing ==
    \/ ToLog32 \/ FromLog32
    \/ Log32Mul \/ Log32Div \/ Log32Pow \/ Log32Add

SpecRing == InitRing /\ [][NextRing]_vars

NextTrip == ToLog32Trip \/ FromLog32

SpecTrip == InitRing /\ [][NextTrip]_vars

\* C8: every Log32 value produced by to_log32, log32_mul, log32_div,
\* log32_pow and log32_add has sign = 0 exactly when lval is the zero
\* sentinel
C8_SignZeroIffSentinel ==
    (rres.sign = 0) <=> (rres.lval = Sentinel(layout))

\* the state after log32_pow(log32_div(to_log32(-1), to_log32(-65536)), 8.0)
\* in the int16_t layout: a positive value carrying the sentinel, produced
\* without any wrap-around
C8_SentinelWithoutWrap ==
    /\ layout = 16 /\ rop = "log32_pow" /\ ra = Log32(-4096, 1)
    /\ rres = Log32(INT16_MIN, 1)

IsMulDiv == rop \in {"log32_mul", "log32_div"}

\* x + y (or x - y) equals r and lies in the lval field of width w
ExactSum(w, x, y, r) ==
    IF w = 16 THEN x + y \in INT16_MIN..INT16_MAX /\ r = x + y
    ELSE ~AddOverflows32(x, y) /\ r = x + y
ExactDiff(w, x, y, r) ==
    IF w = 16 THEN x - y \in INT16_MIN..INT16_MAX /\ r = x - y
    ELSE y # INT32_MIN /\ ~AddOverflows32(x, -y) /\ r = x - y
SumFits(w, x, y) ==
    IF w = 16 THEN x + y \in INT16_MIN..INT16_MAX ELSE ~AddOverflows32(x, y)
DiffFits(w, x, y) ==
    IF w = 16 THEN x - y \in INT16_MIN..INT16_MAX
    ELSE y # INT32_MIN /\ ~AddOverflows32(x, -y)

\* C9 (as stated): log32_mul and log32_div return the product of the input
\* signs, 0 whenever either input has sign 0 (a zero divisor included), and
\* for two nonzero inputs the sum (mul) or difference (div) of the magnitudes
C9_SignProductAlways ==
    IsMulDiv =>
        /\ rres.sign = ra.sign * rb.sign
        /\ ((ra.sign = 0 \/ rb.sign = 0) => rres.sign = 0)
        /\ ((ra.sign # 0 /\ rb.sign # 0 /\ rop = "log32_mul")
                => ExactSum(layout, ra.lval, rb.lval, rres.lval))
        /\ ((ra.sign # 0 /\ rb.sign # 0 /\ rop = "log32_div")
                => ExactDiff(layout, ra.lval, rb.lval, rres.lval))

\* C9 (amended): log32_mul returns the product of the input signs (0 when
\* either is 0); log32_div does so for a divisor of nonzero sign, and for a
\* divisor of sign 0 returns sign +1 (a.sign >= 0) or -1 with the largest
\* lval; for two nonzero inputs the magnitude is the sum (mul) or difference
\* (div) of the input magnitudes whenever that fits the lval field
C9_SignProductUnlessZeroDivisor ==
    /\ rop = "log32_mul" =>
        /\ rres.sign = ra.sign * rb.sign
        /\ ((ra.sign = 0 \/ rb.sign = 0) => rres.sign = 0)
        /\ ((ra.sign # 0 /\ rb.sign # 0 /\ SumFits(layout, ra.lval, rb.lval))
                => rres.lval = ra.lval + rb.lval)
    /\ (rop = "log32_div" /\ rb.sign # 0) =>
        /\ rres.sign = ra.sign * rb.sign
        /\ ((ra.sign # 0 /\ DiffFits(layout, ra.lval, rb.lval))
                => rres.lval = ra.lval - rb.lval)
    /\ (rop = "log32_div" /\ rb.sign = 0) =>
        /\ rres.sign = (IF ra.sign >= 0 THEN 1 ELSE -1)
        /\ rres.lval = MaxLval(layout)

C9_Witness ==
    /\ rop = "log32_div" /\ ra.sign = -1 /\ rb.sign = 1
    /\ ra.lval = 0 /\ rb.lval = 4096
    /\ rres = Log32(-4096, -1)

C9_WitnessZeroDivisor ==
    /\ rop = "log32_div" /\ ra.sign = 1 /\ rb.sign = 0
    /\ rres = Log32(MaxLval(layout), 1)

\* |v| / 64 rounded down
AbsDiv64(v) == IF v = INT32_MIN THEN 33554432 ELSE Abs(v) \div 64
SameSign(x, y) == (x > 0 /\ y > 0) \/ (x < 0 /\ y < 0)

\* C10: to_log32(0) has sign 0 and converts back to 0; for nonzero v,
\* from_log32(to_log32(v)) has the sign of v and is within |v|/64 + 1 of v
C10_RoundTrip ==
    rop = "from_log32" =>
        /\ (rlin = 0 => rres.sign = 0 /\ rout = 0)
        /\ (rlin # 0 =>
                /\ SameSign(rout, rlin)
                /\ Abs(rout - rlin) - 1 <= AbsDiv64(rlin))

C10_Witness ==
    /\ rop = "from_log32" /\ rlin = -257 /\ rres = Log32(2048, -1)
    /\ rout = -256

C10_WitnessZero ==
    /\ rop = "from_log32" /\ rlin = 0 /\ rres.sign = 0 /\ rout = 0

----------------------------------------------------------------------------
(* Log32: one multiplication between a conversion in and a conversion out *)

Log32MulTrip ==
    /\ rop = "to_log32"
    /\ \E b \in TripInputs :
        /\ ra' = rres /\ rb' = to_log32(b, layout)
        /\ rres' = log32_mul(rres, to_log32(b, layout), layout)
    /\ rop' = "log32_mul"
    /\ rn' = rn + 1
    /\ rout' = 0
    /\ UNCHANGED <<layout, rlin, intVars, floatVars, auxVars>>

NextLogMul == ToLog32Trip \/ Log32MulTrip \/ FromLog32

SpecLogMul == InitRing /\ [][NextLogMul]_vars

\* C11: for positive a and b, from_log32(log32_mul(to_log32(a), to_log32(b)))
\* equals mul_u32_ap(a, b) bit for bit whenever that value is below 2^31
C11_LogMulEqualsApMul ==
    [][(/\ rop = "log32_mul" /\ rop' = "from_log32"
        /\ rlin > 0 /\ ra = to_log32(rlin, layout))
       => \A b \in TripInputs :
            (b > 0 /\ rb = to_log32(b, layout)) =>
                LET m == mul_u32_ap(CastU32(rlin), CastU32(b))
                IN Hi(m) < 32768 => rout' = CastI32(m)]_vars

C11_Witness ==
    /\ rop = "from_log32" /\ rlin = 100 /\ rn = 1
    /\ ra = to_log32(100, layout) /\ rb = to_log32(5, layout)
    /\ rout = 500 /\ mul_u32_ap(ToU32(100), ToU32(5)) = ToU32(500)

----------------------------------------------------------------------------
(* Log32: addition *)

\* min(255, |x - y| >> 3) over the integers
LseIndex(x, y) ==
    LET hi == IF x >= y THEN x ELSE y
        lo == IF x >= y THEN y ELSE x
    IN IF lo < 0 /\ hi > INT32_MAX + lo THEN 255
       ELSE IF (hi - lo) \div 8 > 255 THEN 255 ELSE (hi - lo) \div 8

MaxOf(x, y) == IF x >= y THEN x ELSE y

\* C12: log32_add on two nonzero operands of the same sign returns that sign
\* and lval = max(a.lval, b.lval) + lse_table_q8[min(255, |a.lval - b.lval| >> 3)];
\* log32_add(to_log32(100), to_log32(200)) converts back to 300 within 5
C12_AddIsMaxPlusLse ==
    /\ (rop = "log32_add" /\ ra.sign # 0 /\ ra.sign = rb.sign) =>
            /\ rres.sign = ra.sign
            /\ ExactSum(layout, MaxOf(ra.lval, rb.lval),
                        lse_table_q8[LseIndex(ra.lval, rb.lval)], rres.lval)
    /\ LET s == log32_add(to_log32(100, layout), to_log32(200, layout), layout)
       IN Abs(from_log32(s) - 300) <= 5

\* the state after log32_add(log32_pow(to_log32(65536), 128.0), to_log32(1))
\* in the int32_t layout: the difference 524288 >> 3 = 65536 is stored in a
\* uint16_t before it is clamped, so entry 0 of the table is added
C12_TruncatedIndex ==
    /\ layout = 32 /\ rop = "log32_add"
    /\ ra = Log32(524288, 1) /\ rb = Log32(0, 1)
    /\ rres = Log32(524288 + lse_table_q8[0], 1)

----------------------------------------------------------------------------
(* 64-bit intermediates: an int64_t is kept as four 16-bit limbs, least    *)
(* significant first, in two's complement                                   *)

\* (int64_t)x of an int32_t x
Limbs64(x) ==
    LET u == CastU32(x)
        ext == IF x < 0 THEN 65535 ELSE 0
    IN <<Lo(u), Hi(u), ext, ext>>

\* a * b on int64_t (low 64 bits)
Mul64(a, b) ==
    LET p00 == Mul16x16(a[1], b[1])
        p01 == Mul16x16(a[1], b[2])
        p10 == Mul16x16(a[2], b[1])
        p02 == Mul16x16(a[1], b[3])
        p11 == Mul16x16(a[2], b[2])
        p20 == Mul16x16(a[3], b[1])
        p03 == Mul16x16(a[1], b[4])
        p12 == Mul16x16(a[2], b[3])
        p21 == Mul16x16(a[3], b[2])
        p30 == Mul16x16(a[4], b[1])
        t1 == Hi(p00) + Lo(p01) + Lo(p10)
        t2 == Hi(p01) + Hi(p10) + Lo(p02) + Lo(p11) + Lo(p20) + (t1 \div HALF)
        t3 == Hi(p02) + Hi(p11) + Hi(p20)
              + Lo(p03) + Lo(p12) + Lo(p21) + Lo(p30) + (t2 \div HALF)
    IN <<Lo(p00), t1 % HALF, t2 % HALF, t3 % HALF>>

\* a + b on int64_t (low 64 bits)
Add64(a, b) ==
    LET t1 == a[1] + b[1]
        t2 == a[2] + b[2] + (t1 \div HALF)
        t3 == a[3] + b[3] + (t2 \div HALF)
        t4 == a[4] + b[4] + (t3 \div HALF)
    IN <<t1 % HALF, t2 % HALF, t3 % HALF, t4 % HALF>>

\* (int64_t)x * y for int32_t x, y
Prod64(x, y) == Mul64(Limbs64(x), Limbs64(y))

Q16_S == 16
Q16_ONE == 65536

\* (int32_t)(a >> Q16_S)
Sar16ToI32(a) == CastI32(U32(a[3], a[2]))

\* (int32_t)(a >> 32)
Sar32ToI32(a) == CastI32(U32(a[4], a[3]))

\* (int32_t)a
Low32(a) == CastI32(U32(a[2], a[1]))

q16_mul_s(a, b) == Sar16ToI32(Prod64(a, b))

----------------------------------------------------------------------------
(* Mat4 *)

mat4_identity == [i \in 0..3 |-> [j \in 0..3 |-> IF i = j THEN Q16_ONE ELSE 0]]

\* the products formed in int32_t instead of int64_t
mat4_mul_narrow(A, B) ==
    [i \in 0..3 |-> [j \in 0..3 |->
        Low32(Add64(Add64(Prod64(A[i][0], B[0][j]), Prod64(A[i][1], B[1][j])),
                    Add64(Prod64(A[i][2], B[2][j]), Prod64(A[i][3], B[3][j]))))
            \div Pow2(Q16_S)]]

mat4_mul(A, B) ==
    [i \in 0..3 |-> [j \in 0..3 |->
        Sar16ToI32(
            Add64(Add64(Add64(Prod64(A[i][0], B[0][j]), Prod64(A[i][1], B[1][j])),
                        Prod64(A[i][2], B[2][j])),
                  Prod64(A[i][3], B[3][j])))]]

mat4_scaling(x, y, z) ==
    [i \in 0..3 |-> [j \in 0..3 |->
        IF i # j THEN 0
        ELSE IF i = 0 THEN x ELSE IF i = 1 THEN y ELSE IF i = 2 THEN z
        ELSE Q16_ONE]]

MaxSeed == 12

MatVals == <<0, 1, -1, 65536, -65536, 65535, -32769, 98304, 1073741824,
             INT32_MAX, INT32_MIN, -INT32_MAX, 305419896>>

\* a Mat4 filled from MatVals, starting at s and advancing by p
PatternMat(s, p) ==
    [i \in 0..3 |-> [j \in 0..3 |->
        MatVals[(((i * 4 + j) * p + s) % Len(MatVals)) + 1]]]

\* a Mat4 whose only nonzero entry is v at row r, column c
UnitMat(r, c, v) ==
    [i \in 0..3 |-> [j \in 0..3 |-> IF i = r /\ j = c THEN v ELSE 0]]

MatInputs ==
    {PatternMat(s, p) : s \in 0..MaxSeed, p \in {1, 3, 5}}
    \cup {UnitMat(r, c, MatVals[k]) :
            r \in 0..3, c \in 0..3, k \in 1..Len(MatVals)}

ScaleVals == {32768, 131072, -65536}

matRest == <<intVars, floatVars, ringVars,
             pipeVars, fixVars, trigVars, stepVars, msbVars, unaryVars>>

InitMat ==
    /\ mM \in MatInputs
    /\ mres = ZeroMat
    /\ mop = "none"
    /\ IntIdle /\ FloatIdle /\ RingIdle
    /\ PipeIdle /\ FixIdle /\ TrigIdle /\ StepIdle /\ MsbIdle /\ UnaryIdle

Mat4MulIdentityLeft ==
    /\ mres' = mat4_mul(mat4_identity, mM)
    /\ mop' = "identity_left"
    /\ UNCHANGED <<mM, matRest>>

Mat4MulIdentityRight ==
    /\ mres' = mat4_mul(mM, mat4_identity)
    /\ mop' = "identity_right"
    /\ UNCHANGED <<mM, matRest>>

Mat4MulScaling ==
    /\ \E k \in ScaleVals : mres' = mat4_mul(mat4_scaling(k, k, k), mM)
    /\ mop' = "scaling_left"
    /\ UNCHANGED <<mM, matRest>>

NextMat == Mat4MulIdentityLeft \/ Mat4MulIdentityRight \/ Mat4MulScaling

SpecMat == InitMat /\ [][NextMat]_vars

\* C13: mat4_mul(mat4_identity(), M) = M and mat4_mul(M, mat4_identity()) = M,
\* all 16 entries bit-identical, for every Mat4 M with arbitrary 32-bit signed
\* entries, negative entries included
C13_IdentityNeutral ==
    mop \in {"identity_left", "identity_right"} => mres = mM

C13_Witness ==
    /\ mop = "identity_right" /\ mM = PatternMat(9, 3)
    /\ mM[0][0] = INT32_MAX /\ mM[0][2] = -1 /\ mM[2][1] = INT32_MIN
    /\ mres = mM

C13_WitnessScaled ==
    /\ mop = "scaling_left" /\ mM = UnitMat(1, 2, -32769)
    /\ mres # mM /\ mres[1][2] \in {-16385, -65538, 32769}

----------------------------------------------------------------------------
(* Q16.16 fixed-point division *)

\* -u on uint32_t
NegU32(u) ==
    IF Lo(u) = 0 THEN U32((HALF - Hi(u)) % HALF, 0)
    ELSE U32(65535 - Hi(u), HALF - Lo(u))

\* bit k (0 = least significant) of a uint32_t
BitAt(u, k) ==
    IF k >= 16 THEN (Hi(u) \div Pow2(k - 16)) % 2 ELSE (Lo(u) \div Pow2(k)) % 2

\* u with bit k set (bits above 31 are dropped)
WithBit(u, k) ==
    IF k >= 32 THEN u
    ELSE IF k >= 16 THEN U32(Hi(u) + Pow2(k - 16), Lo(u))
    ELSE U32(Hi(u), Lo(u) + Pow2(k))

\* restoring division of the 48-bit value a << 16 by b # 0: brings down bits
\* k..stop of the dividend, r < b being the remainder so far; yields these
\* bits of the quotient (truncated to 32 bits) and the remainder left
RECURSIVE UDivBits(_, _, _, _, _)
UDivBits(a, b, k, stop, r) ==
    IF k < stop THEN <<ZERO32, r>>
    ELSE LET bit == IF k >= Q16_S THEN BitAt(a, k - Q16_S) ELSE 0
             lo2 == Lo(r) * 2 + bit
             hi2 == Hi(r) * 2 + (lo2 \div HALF)
             r2  == U32(hi2 % HALF, lo2 % HALF)
             ge  == hi2 >= HALF \/ Le32(b, r2)
             rn2 == IF hi2 >= HALF THEN NegU32(AbsDiff32(b, r2))
                    ELSE IF ge THEN AbsDiff32(r2, b) ELSE r2
             sub == UDivBits(a, b, k - 1, stop, rn2)
         IN IF ge THEN <<WithBit(sub[1], k), sub[2]>> ELSE sub

\* x | y for two uint32_t with no bit in common
Or32(x, y) == U32(Hi(x) + Hi(y), Lo(x) + Lo(y))

\* (uint32_t)(((uint64_t)a << Q16_S) / b), b # 0
UDiv48(a, b) ==
    LET s1 == UDivBits(a, b, 47, 32, ZERO32)
        s2 == UDivBits(a, b, 31, 16, s1[2])
        s3 == UDivBits(a, b, 15, 0, s2[2])
    IN Or32(s2[1], s3[1])

\* |x| of an int32_t as uint32_t
Mag32(x) == IF x < 0 THEN NegU32(CastU32(x)) ELSE CastU32(x)

q16_div_u(a, b) ==
    IF b = ZERO32 THEN ONES32 ELSE UDiv48(a, b)

\* the result for a >= 0 returned for every a
q16_div_s_possat(a, b) ==
    IF b = 0 THEN INT32_MAX
    ELSE LET q == UDiv48(Mag32(a), Mag32(b))
         IN CastI32(IF (a < 0) # (b < 0) THEN NegU32(q) ELSE q)

q16_div_s(a, b) ==
    IF b = 0 THEN (IF a >= 0 THEN INT32_MAX ELSE INT32_MIN)
    ELSE LET q == UDiv48(Mag32(a), Mag32(b))
         IN CastI32(IF (a < 0) # (b < 0) THEN NegU32(q) ELSE q)

q16_div_s_ap(a, b) ==
    LET n  == (a < 0) # (b < 0)
        ua == Mag32(a)
        ub == Mag32(b)
    IN IF ub = ZERO32 THEN (IF n THEN INT32_MIN ELSE INT32_MAX)
       ELSE LET res == CastI32(exp2_q8(Add32(Sub32(log2_q8(ua), log2_q8(ub)),
                                            16 * Pow2(FMT_LOG_Q))))
            IN IF n THEN Neg32(res) ELSE res

FixSmall == 4

FixInputs ==
    (-FixSmall..FixSmall)
    \cup {65536, -65536, 98304, 131072, -196608, 16777216,
          INT32_MAX, INT32_MIN, -INT32_MAX}

fixRest == <<intVars, floatVars, ringVars,
             matVars, pipeVars, trigVars, stepVars, msbVars, unaryVars>>

InitFix ==
    /\ qa \in FixInputs
    /\ qb \in FixInputs
    /\ qop = "none"
    /\ qres = ZERO32
    /\ IntIdle /\ FloatIdle /\ RingIdle
    /\ MatIdle /\ PipeIdle /\ TrigIdle /\ StepIdle /\ MsbIdle /\ UnaryIdle

Q16DivU ==
    /\ qres' = q16_div_u(CastU32(qa), CastU32(qb))
    /\ qop' = "q16_div_u"
    /\ UNCHANGED <<qa, qb, fixRest>>

Q16DivS ==
    /\ qres' = CastU32(q16_div_s(qa, qb))
    /\ qop' = "q16_div_s"
    /\ UNCHANGED <<qa, qb, fixRest>>

Q16DivSAp ==
    /\ qres' = CastU32(q16_div_s_ap(qa, qb))
    /\ qop' = "q16_div_s_ap"
    /\ UNCHANGED <<qa, qb, fixRest>>

NextFix == Q16DivU \/ Q16DivS \/ Q16DivSAp

SpecFix == InitFix /\ [][NextFix]_vars

\* C16: q16_div_u(a, 0) = 0xFFFFFFFF for every a; q16_div_s(a, 0) = INT32_MAX
\* when a >= 0 and INT32_MIN when a < 0; q16_div_s_ap(a, 0) returns the same
\* saturated value as q16_div_s(a, 0)
C16_DivByZeroSaturates ==
    qb = 0 =>
        /\ (qop = "q16_div_u" => qres = ONES32)
        /\ (qop \in {"q16_div_s", "q16_div_s_ap"} =>
                CastI32(qres) = (IF qa >= 0 THEN INT32_MAX ELSE INT32_MIN))

C16_Witness ==
    /\ qop = "q16_div_s_ap" /\ qa = -1 /\ qb = 0
    /\ CastI32(qres) = INT32_MIN

C16_WitnessExact ==
    /\ qop = "q16_div_s" /\ qa = -196608 /\ qb = 98304
    /\ CastI32(qres) = -131072

C16_WitnessTruncated ==
    /\ qop = "q16_div_s" /\ qa = -65536 /\ qb = 3
    /\ CastI32(qres) = -1431655765

C16_WitnessUnsigned ==
    /\ qop = "q16_div_u" /\ qa = -1 /\ qb = INT32_MIN
    /\ qres = U32(1, 65535)

----------------------------------------------------------------------------
(* 3-D pipeline: rotation, translation and perspective projection *)

\* the quarter-turn entries of the 1024-entry Q15 sine and cosine tables
sin_table_q15 == (0 :> 0) @@ (256 :> 32767) @@ (512 :> 0) @@ (768 :> -32767)
cos_table_q15 == (0 :> 32767) @@ (256 :> 0) @@ (512 :> -32767) @@ (768 :> 0)

sin_u16(a) == sin_table_q15[(a \div 64) % 1024]
cos_u16(a) == cos_table_q15[(a \div 64) % 1024]
sin_q16(a) == sin_u16(a) * 2
cos_q16(a) == cos_u16(a) * 2

\* (int32_t)(((int64_t)a * b * c) >> 32)
TripleProd(a, b, c) == Sar32ToI32(Mul64(Prod64(a, b), Limbs64(c)))

\* the nine entries written by mat3_rotation_euler, with the sign of the
\* second term of entry [0][1] reversed
EulerEntries_plus(sx, cx, sy, cy, sz, cz) ==
    <<
        << q16_mul_s(cz, cy),
           Add32(TripleProd(cz, sy, sx), q16_mul_s(sz, cx)),
           Add32(TripleProd(cz, sy, cx), q16_mul_s(sz, sx)) >>,
        << q16_mul_s(sz, cy),
           Add32(TripleProd(sz, sy, sx), q16_mul_s(cz, cx)),
           Sub32(TripleProd(sz, sy, cx), q16_mul_s(cz, sx)) >>,
        << Neg32(sy), q16_mul_s(cy, sx), q16_mul_s(cy, cx) >>
    >>

\* the nine entries written by mat3_rotation_euler from the six sine and
\* cosine values it looked up
EulerEntries(sx, cx, sy, cy, sz, cz) ==
    <<
        << q16_mul_s(cz, cy),
           Sub32(TripleProd(cz, sy, sx), q16_mul_s(sz, cx)),
           Add32(TripleProd(cz, sy, cx), q16_mul_s(sz, sx)) >>,
        << q16_mul_s(sz, cy),
           Add32(TripleProd(sz, sy, sx), q16_mul_s(cz, cx)),
           Sub32(TripleProd(sz, sy, cx), q16_mul_s(cz, sx)) >>,
        << Neg32(sy), q16_mul_s(cy, sx), q16_mul_s(cy, cx) >>
    >>

mat3_rotation_euler(ax, ay, az) ==
    EulerEntries(sin_q16(ax), cos_q16(ax), sin_q16(ay), cos_q16(ay),
                 sin_q16(az), cos_q16(az))

\* one row of M times v
Row3(row, v) ==
    Sar16ToI32(Add64(Add64(Prod64(row[1], v[1]), Prod64(row[2], v[2])),
                     Prod64(row[3], v[3])))

mat3_mul_vec(M, v) == <<Row3(M[1], v), Row3(M[2], v), Row3(M[3], v)>>

Projected(by, x, y, z, denom) ==
    [by |-> by, x |-> x, y |-> y, z |-> z, denom |-> denom]

project_perspective(by, v, focal) ==
    LET d0 == Add32(v[3], focal)
        denom == IF d0 = 0 THEN 1 ELSE d0
    IN Projected(by, q16_div_s(q16_mul_s(v[1], focal), denom),
                 q16_div_s(q16_mul_s(v[2], focal), denom), v[3], denom)

\* one coordinate of project_perspective_ap
ApCoord(c, log_factor) ==
    LET r == IF c = 0 THEN 0
             ELSE CastI32(exp2_q8(Add32(log2_q8(Mag32(c)), log_factor)))
    IN IF c < 0 THEN Neg32(r) ELSE r

project_perspective_ap(by, v, focal) ==
    LET d0 == Add32(v[3], focal)
        denom == IF d0 <= 0 THEN 1 ELSE d0
        log_focal == log2_q8(CastU32(focal))
        log_denom == log2_q8(CastU32(denom))
        log_factor == Sub32(log_focal, log_denom)
    IN Projected(by, ApCoord(v[1], log_factor), ApCoord(v[2], log_factor),
                 v[3], denom)

\* the world-space point both pipelines project
World(in) ==
    LET R == mat3_rotation_euler(in.ax, in.ay, in.az)
        scaled == <<q16_mul_s(in.v[1], in.scale), q16_mul_s(in.v[2], in.scale),
                    q16_mul_s(in.v[3], in.scale)>>
        rot == mat3_mul_vec(R, scaled)
    IN <<Add32(rot[1], in.trans[1]), Add32(rot[2], in.trans[2]),
         Add32(rot[3], in.trans[3])>>

pipeline_mvp(in) == project_perspective("pipeline_mvp", World(in), in.focal)

pipeline_mvp_fused(in) ==
    project_perspective_ap("pipeline_mvp_fused", World(in), in.focal)

PipeVecs == {<<0, 65536, 0>>, <<65536, -131072, 32768>>,
             <<-3276800, 655360, -65536>>, <<0, 0, 0>>}
PipeScales == {65536, 32768}
PipeAngles == {<<0, 0, 0>>, <<16384, 0, 0>>, <<32768, 16384, 49152>>}
PipeTrans == {<<0, 0, 2097152>>, <<65536, -65536, 0>>,
              <<0, 0, -16777216>>, <<0, 0, -50331648>>}
PipeFocals == {16777216, 65536, 6553600}

pipeRest == <<intVars, floatVars, ringVars,
              matVars, fixVars, trigVars, stepVars, msbVars, unaryVars>>

InitPipe ==
    /\ pin \in {[v |-> v, scale |-> k, ax |-> a[1], ay |-> a[2], az |-> a[3],
                  trans |-> t, focal |-> f] :
                    v \in PipeVecs, k \in PipeScales, a \in PipeAngles,
                    t \in PipeTrans, f \in PipeFocals}
    /\ pstd = NoProjection
    /\ pap = NoProjection
    /\ IntIdle /\ FloatIdle /\ RingIdle
    /\ MatIdle /\ FixIdle /\ TrigIdle /\ StepIdle /\ MsbIdle /\ UnaryIdle

PipelineMvp ==
    /\ pstd' = pipeline_mvp(pin)
    /\ UNCHANGED <<pin, pap, pipeRest>>

PipelineMvpFused ==
    /\ pap' = pipeline_mvp_fused(pin)
    /\ UNCHANGED <<pin, pstd, pipeRest>>

\* project_perspective applied to the local point itself
ProjectPerspective ==
    /\ pstd' = project_perspective("project_perspective", pin.v, pin.focal)
    /\ UNCHANGED <<pin, pap, pipeRest>>

NextPipe == PipelineMvp \/ PipelineMvpFused \/ ProjectPerspective

SpecPipe == InitPipe /\ [][NextPipe]_vars

\* |x - y| <= t for int32_t x, y and t >= 0
Within(x, y, t) ==
    LET hi == IF x >= y THEN x ELSE y
        lo == IF x >= y THEN y ELSE x
    IN lo > INT32_MAX - t \/ hi <= lo + t

\* the larger of 0.1 in Q16.16 units and 2% of |x|
Tolerance(x) ==
    LET pct == IF x = INT32_MIN THEN 42949672 ELSE Abs(x) \div 50
    IN IF pct > 6553 THEN pct ELSE 6553

\* C14: for identical inputs with focal > 0, pipeline_mvp and
\* pipeline_mvp_fused return the same z, and x and y that differ by no more
\* than the larger of 0.1 (Q16.16) and 2% of the standard path's magnitude,
\* for every world-space point, z + focal zero or negative included
C14_FusedWithinTolerance ==
    (pstd.by = "pipeline_mvp" /\ pap.by = "pipeline_mvp_fused"
        /\ pin.focal > 0) =>
        /\ pstd.z = pap.z
        /\ Within(pstd.x, pap.x, Tolerance(pstd.x))
        /\ Within(pstd.y, pap.y, Tolerance(pstd.y))

\* the state after both pipelines ran on v = (0, 1.0, 0), scale 1.0, no
\* rotation, translation (0, 0, -768.0) and focal 256.0: the standard path
\* divides by z + focal = -512.0, the fused path by 1
C14_BehindCamera ==
    /\ pin = [v |-> <<0, 65536, 0>>, scale |-> 65536,
              ax |-> 0, ay |-> 0, az |-> 0,
              trans |-> <<0, 0, -50331648>>, focal |-> 16777216]
    /\ pstd = Projected("pipeline_mvp", 0, -32766, -50331648, -33554432)
    /\ pap = Projected("pipeline_mvp_fused", 0, -1, -50331648, 1)

\* C15: the denominator project_perspective divides by is >= 1 for every v.z
\* and focal, so it never divides by zero or by a negative value
C15_DenominatorClamped ==
    pstd.by # "none" => pstd.denom >= 1

\* the state after project_perspective((0, 1.0, 0) moved to z = -768.0,
\* focal 256.0): the denominator used is -512.0
C15_NegativeDenominator ==
    /\ pstd.by = "pipeline_mvp" /\ pstd.z = -50331648
    /\ pin.focal = 16777216 /\ pstd.denom = -33554432

----------------------------------------------------------------------------
(* atan2 *)

\* round(atan(i / 255) * 32768 / pi) for i = 0..255
AtanIdeal ==
  <<0, 41, 82, 123, 164, 204, 245, 286, 327, 368, 409, 450, 490, 531, 572, 613,
    654, 694, 735, 776, 816, 857, 898, 938, 979, 1019, 1060, 1100, 1141, 1181, 1221, 1262,
    1302, 1342, 1383, 1423, 1463, 1503, 1543, 1583, 1623, 1663, 1703, 1742, 1782, 1822, 1862, 1901,
    1941, 1980, 2020, 2059, 2098, 2137, 2177, 2216, 2255, 2294, 2333, 2372, 2410, 2449, 2488, 2526,
    2565, 2603, 2642, 2680, 2718, 2756, 2794, 2832, 2870, 2908, 2946, 2984, 3021, 3059, 3096, 3134,
    3171, 3208, 3245, 3282, 3319, 3356, 3393, 3429, 3466, 3503, 3539, 3575, 3612, 3648, 3684, 3720,
    3756, 3791, 3827, 3863, 3898, 3934, 3969, 4004, 4039, 4074, 4109, 4144, 4179, 4213, 4248, 4282,
    4317, 4351, 4385, 4419, 4453, 4487, 4521, 4554, 4588, 4621, 4654, 4688, 4721, 4754, 4787, 4820,
    4852, 4885, 4918, 4950, 4982, 5014, 5047, 5079, 5110, 5142, 5174, 5206, 5237, 5268, 5300, 5331,
    5362, 5393, 5424, 5454, 5485, 5516, 5546, 5576, 5607, 5637, 5667, 5697, 5727, 5756, 5786, 5815,
    5845, 5874, 5903, 5932, 5961, 5990, 6019, 6048, 6076, 6105, 6133, 6161, 6190, 6218, 6246, 6273,
    6301, 6329, 6356, 6384, 6411, 6438, 6466, 6493, 6520, 6546, 6573, 6600, 6626, 6653, 6679, 6705,
    6732, 6758, 6784, 6809, 6835, 6861, 6886, 6912, 6937, 6963, 6988, 7013, 7038, 7063, 7087, 7112,
    7137, 7161, 7186, 7210, 7234, 7258, 7282, 7306, 7330, 7354, 7378, 7401, 7425, 7448, 7472, 7495,
    7518, 7541, 7564, 7587, 7610, 7632, 7655, 7677, 7700, 7722, 7744, 7767, 7789, 7811, 7832, 7854,
    7876, 7898, 7919, 7941, 7962, 7983, 8005, 8026, 8047, 8068, 8089, 8110, 8130, 8151, 8172, 8192>>

\* contents of atan_q15_table: entries in 0..8192, entry 0 equal to 0
AtanProfiles == {"zero", "step", "ideal"}

atan_q15_table(p) ==
    [i \in 0..255 |->
        IF p = "zero" THEN 0
        ELSE IF p = "step" THEN (IF i = 0 THEN 0 ELSE 8192)
        ELSE AtanIdeal[i + 1]]

\* x + y for uint32_t whose sum is below 2^32
AddU32(x, y) ==
    U32(Hi(x) + Hi(y) + ((Lo(x) + Lo(y)) \div HALF), (Lo(x) + Lo(y)) % HALF)

\* (m * u) / d for the n leading one-bits of the multiplier still to come,
\* u <= d <= 2^31: q and r < d are the quotient and remainder so far
RECURSIVE MulDivBits(_, _, _, _, _)
MulDivBits(u, d, n, q, r) ==
    IF n = 0 THEN q
    ELSE LET dbl == AddU32(r, r)
             e1  == Le32(d, dbl)
             r1  == IF e1 THEN AbsDiff32(dbl, d) ELSE dbl
             sum == AddU32(r1, u)
             e2  == Le32(d, sum)
             r2  == IF e2 THEN AbsDiff32(sum, d) ELSE sum
         IN MulDivBits(u, d, n - 1,
                       2 * q + (IF e1 THEN 1 ELSE 0) + (IF e2 THEN 1 ELSE 0), r2)

\* (uint16_t)(((uint64_t)u * 255) / d), u <= d, d # 0
Times255Div(u, d) == MulDivBits(u, d, 8, 0, ZERO32)

\* the reflection for x < 0, y >= 0 left out
atan2_u16_noreflect(y, x, tab) ==
    IF x = 0 /\ y = 0 THEN 0
    ELSE LET ux == Mag32(x)
             uy == Mag32(y)
             angle == IF Le32(uy, ux)
                      THEN LET idx == IF uy = ZERO32 THEN 0 ELSE Times255Div(uy, ux)
                           IN atan_q15_table(tab)[idx]
                      ELSE LET idx == IF ux = ZERO32 THEN 0 ELSE Times255Div(ux, uy)
                           IN (16384 - atan_q15_table(tab)[idx]) % HALF
         IN IF x < 0
            THEN (IF y >= 0 THEN angle ELSE (32768 + angle) % HALF)
            ELSE (IF y < 0 THEN (HALF - angle) % HALF ELSE angle)

atan2_u16(y, x, tab) ==
    IF x = 0 /\ y = 0 THEN 0
    ELSE LET ux == Mag32(x)
             uy == Mag32(y)
             angle == IF Le32(uy, ux)
                      THEN LET idx == IF uy = ZERO32 THEN 0 ELSE Times255Div(uy, ux)
                           IN atan_q15_table(tab)[idx]
                      ELSE LET idx == IF ux = ZERO32 THEN 0 ELSE Times255Div(ux, uy)
                           IN (16384 - atan_q15_table(tab)[idx]) % HALF
         IN IF x < 0
            THEN (IF y >= 0 THEN (32768 - angle) % HALF
                  ELSE (32768 + angle) % HALF)
            ELSE (IF y < 0 THEN (HALF - angle) % HALF ELSE angle)

AtanSmall == 3

AtanInputs ==
    (-AtanSmall..AtanSmall)
    \cup {100, -100, 255, -256, 25500, 65536, -16777216,
          INT32_MAX, -INT32_MAX, INT32_MIN}

trigRest == <<intVars, floatVars, ringVars,
              matVars, pipeVars, fixVars, stepVars, msbVars, unaryVars>>

InitTrig ==
    /\ aty \in AtanInputs
    /\ atx \in AtanInputs
    /\ attab \in AtanProfiles
    /\ atop = "none"
    /\ atres = 0
    /\ IntIdle /\ FloatIdle /\ RingIdle
    /\ MatIdle /\ PipeIdle /\ FixIdle /\ StepIdle /\ MsbIdle /\ UnaryIdle

Atan2U16 ==
    /\ atres' = atan2_u16(aty, atx, attab)
    /\ atop' = "atan2_u16"
    /\ UNCHANGED <<aty, atx, attab, trigRest>>

NextTrig == Atan2U16

SpecTrig == InitTrig /\ [][NextTrig]_vars

\* C17: atan2_u16(0,0) = 0, and for every other (y,x) the angle lies in the
\* quadrant of the point: in [0,16384] for x > 0, y >= 0; in [16384,32768]
\* for x <= 0, y > 0; in [32768,49152] for x < 0, y <= 0; in [49152,65535]
\* or equal to 0 for x >= 0, y < 0; on the four half-axes it is exactly
\* 0, 16384, 32768 and 49152
C17_AtanQuadrants ==
    atop = "atan2_u16" =>
        /\ ((atx = 0 /\ aty = 0) => atres = 0)
        /\ ((atx > 0 /\ aty >= 0) => atres \in 0..16384)
        /\ ((atx <= 0 /\ aty > 0) => atres \in 16384..32768)
        /\ ((atx < 0 /\ aty <= 0) => atres \in 32768..49152)
        /\ ((atx >= 0 /\ aty < 0) => (atres \in 49152..65535 \/ atres = 0))
        /\ ((atx > 0 /\ aty = 0) => atres = 0)
        /\ ((atx = 0 /\ aty > 0) => atres = 16384)
        /\ ((atx < 0 /\ aty = 0) => atres = 32768)
        /\ ((atx = 0 /\ aty < 0) => atres = 49152)

C17_Witness ==
    /\ atop = "atan2_u16" /\ attab = "ideal"
    /\ aty = 100 /\ atx = -100 /\ atres = 24576

C17_WitnessWrap ==
    /\ atop = "atan2_u16" /\ attab = "ideal"
    /\ aty = -1 /\ atx = INT32_MAX /\ atres = 0

C17_WitnessSteep ==
    /\ atop = "atan2_u16" /\ attab = "ideal"
    /\ aty = INT32_MIN /\ atx = 25500 /\ atres = 49152

C17_WitnessIndex ==
    /\ atop = "atan2_u16" /\ attab = "ideal"
    /\ aty = 100 /\ atx = 255 /\ atres = AtanIdeal[101] /\ atres = 3898

----------------------------------------------------------------------------
(* Valuation: index of the highest set bit *)

MsbSmall == 16

\* 2^k - 1 as uint32_t, k in 0..32
LowOnes(k) ==
    IF k >= 16 THEN U32(Pow2(k - 16) - 1, 65535) ELSE U32(0, Pow2(k) - 1)

MsbInputs ==
    {ToU32(n) : n \in 0..MsbSmall}
    \cup {WithBit(ZERO32, k) : k \in 0..31}
    \cup {LowOnes(k) : k \in 0..32}
    \cup {WithBit(WithBit(ZERO32, k), j) : k \in {8, 16, 24, 31}, j \in {0, 7}}
    \cup {U32(0, 32768 + 255), U32(255, 0), U32(256, 65535), U32(32768, 1)}

msbRest == <<intVars, floatVars, ringVars,
             matVars, pipeVars, fixVars, trigVars, stepVars,
             unaryVars>>

InitMsb ==
    /\ bv \in MsbInputs
    /\ bop = "none"
    /\ bmsb = -1
    /\ IntIdle /\ FloatIdle /\ RingIdle
    /\ MatIdle /\ PipeIdle /\ FixIdle /\ TrigIdle /\ StepIdle /\ UnaryIdle

\* half-word test first
FastMsb32 ==
    /\ bmsb' = fast_msb32(bv)
    /\ bop' = "fast_msb32"
    /\ UNCHANGED <<bv, msbRest>>

\* one test per byte
FastMsb32Bw ==
    /\ bmsb' = fast_msb32_bw(bv)
    /\ bop' = "fast_msb32_bw"
    /\ UNCHANGED <<bv, msbRest>>

NextMsb == FastMsb32 \/ FastMsb32Bw

SpecMsb == InitMsb /\ [][NextMsb]_vars

\* floor(log2 v): the position of the highest bit of v that is set
FloorLog2(v) ==
    CHOOSE k \in 0..31 : BitAt(v, k) = 1 /\ \A j \in (k + 1)..31 : BitAt(v, j) = 0

\* C20: with msb_table[b] = floor(log2 b) for b in 1..255 and 0 for b = 0,
\* fast_msb32(v) = floor(log2 v) for every nonzero 32-bit v and -1 for v = 0,
\* in the byte-test and in the half-word-test implementation
C20_MsbIsFloorLog2 ==
    /\ msb_table[0] = 0
    /\ \A b \in 1..255 : b >= Pow2(msb_table[b]) /\ b < 2 * Pow2(msb_table[b])
    /\ bop # "none" =>
           bmsb = (IF bv = ZERO32 THEN -1 ELSE FloorLog2(bv))

C20_Witness ==
    /\ bop = "fast_msb32" /\ bv = U32(255, 0) /\ bmsb = 23

C20_WitnessByteTest ==
    /\ bop = "fast_msb32_bw" /\ bv = U32(0, 32768 + 255) /\ bmsb = 15

C20_WitnessZero ==
    /\ bop \in {"fast_msb32", "fast_msb32_bw"} /\ bv = ZERO32 /\ bmsb = -1

----------------------------------------------------------------------------
(* Calls in progress: each caller executes one operation statement by      *)
(* statement; the locals of a call live in the frame of that call           *)

\* the literal loop limit of the matrix product
Dim(op) == IF op = "mat3_mul_mat" THEN 3 ELSE 4

\* row . column j of B, shifted back to Q16.16
\* (each intermediate value is computed once and then named)
MatEntry(row, B, j, n) ==
    LET Prod(X, Y) ==
            CHOOSE p \in {Mul64(x, y) : x \in {Limbs64(X)}, y \in {Limbs64(Y)}} : TRUE
        Sum(X, Y) == CHOOSE s \in {Add64(x, y) : x \in {X}, y \in {Y}} : TRUE
        s3 == Sum(Sum(Prod(row[0], B[0][j]), Prod(row[1], B[1][j])),
                  Prod(row[2], B[2][j]))
    IN CHOOSE r \in {Sar16ToI32(s) :
                       s \in {IF n = 3 THEN s3
                              ELSE Sum(s3, Prod(row[3], B[3][j]))}} : TRUE

mat3_mul_mat(A, B) ==
    [i \in 0..2 |-> [j \in 0..2 |-> MatEntry(A[i], B, j, 3)]]

\* a scan of the bits from the bottom, one position for each statement
fast_msb32_step_scan(v, e) ==
    IF Shr32(v, e + 1) = ZERO32 THEN <<TRUE, e>> ELSE <<FALSE, e + 1>>

\* int e = fast_msb32(v): <<the call has returned, e>>
fast_msb32_step(v, e) == <<TRUE, fast_msb32(v)>>

\* log2_q8 after e is known, v # 0
log2_q8_tail(v, e) ==
    LET m == IF e >= 7 THEN Lo(Shr32(v, e - 7)) % 256
             ELSE Lo(Shl32(v, 7 - e)) % 256
    IN (e - 7) * Pow2(FMT_LOG_Q) + log2_table_q8[m]

\* fast_mul_f32 after la and lb are known, a and b nonzero
fast_mul_f32_tail(a, b, la, lb, tab) ==
    LET lsum == la + lb
        carry == lsum \div HALF
        lfrac == lsum % HALF
        er == a.e + b.e - 127 + carry
        mr == btm_exp2(lfrac, tab)
        sr == Xor1(a.s, b.s)
    IN IF er <= 0 THEN FZERO
       ELSE IF er >= 255 THEN FInf(sr)
       ELSE <<sr, BitOr(er * Pow2(23), mr)>>

\* every variable of one frame written as if it had static storage
StoreLocal_static(c, loc) == [d \in Callers |-> loc]

\* a write to the automatic variables of the call made by c
StoreLocal(c, loc) == [cloc EXCEPT ![c] = loc]

MulCalls ==
    {[NoCall EXCEPT !.op = "mul_u32_ap", !.a = p[1], !.b = p[2]] :
        p \in {<<ZERO32, ToU32(5)>>, <<ToU32(3), ToU32(1000)>>,
               <<ToU32(100), ToU32(200)>>, <<U32(1, 0), U32(1, 0)>>,
               <<ToU32(1), ONES32>>, <<ONES32, ONES32>>}}

StepFloats ==
    {FloatPosZero, [s |-> 0, e |-> 127, m |-> 0],
     [s |-> 1, e |-> 128, m |-> 4194304], [s |-> 0, e |-> 254, m |-> 8388607]}

FloatCalls ==
    {[NoCall EXCEPT !.op = "fast_mul_f32", !.x = x, !.y = y, !.tab = t] :
        x \in StepFloats, y \in StepFloats,
        t \in {<<"ramp", "saw">>, <<"max", "max">>}}

Mat3Of(M) == [i \in 0..2 |-> [j \in 0..2 |-> M[i][j]]]

MatCalls ==
    {[NoCall EXCEPT !.op = "mat4_mul", !.A = p[1], !.B = p[2]] :
        p \in {<<PatternMat(9, 3), mat4_identity>>,
               <<PatternMat(2, 1), PatternMat(5, 5)>>}}
    \cup {[NoCall EXCEPT !.op = "mat3_mul_mat",
                         !.A = Mat3Of(p[1]), !.B = Mat3Of(p[2])] :
        p \in {<<mat4_scaling(32768, 131072, -65536), PatternMat(9, 3)>>,
               <<PatternMat(4, 5), PatternMat(7, 1)>>}}

Calls == MulCalls \cup FloatCalls \cup MatCalls

stepRest == <<intVars, floatVars, ringVars,
              matVars, pipeVars, fixVars, trigVars, msbVars, unaryVars>>

\* the calls followed to their return under fair scheduling
FairCalls ==
    {k \in MulCalls : k.a \in {ZERO32, ToU32(3), ONES32}}
    \cup {k \in FloatCalls : k.x.e = 128 /\ k.y.e = 254 /\ k.tab[1] = "ramp"}
    \cup {k \in MatCalls : k.A \in {PatternMat(2, 1), Mat3Of(PatternMat(4, 5))}}

InitStepWith(S) ==
    /\ cop \in [Callers -> S]
    /\ cpc = [c \in Callers |-> "entry"]
    /\ cloc = [c \in Callers |-> NoLocal]
    /\ cres = [c \in Callers |-> NoReturn]
    /\ csteps = [c \in Callers |-> 0]
    /\ IntIdle /\ FloatIdle /\ RingIdle
    /\ MatIdle /\ PipeIdle /\ FixIdle /\ TrigIdle /\ MsbIdle /\ UnaryIdle

\* one statement of caller c: the next position, the frame, the value returned
Move(c, pc, loc, ret) ==
    /\ cpc' = [cpc EXCEPT ![c] = pc]
    /\ cloc' = StoreLocal(c, loc)
    /\ cres' = [cres EXCEPT ![c] = ret]
    /\ csteps' = [csteps EXCEPT ![c] = @ + 1]
    /\ UNCHANGED <<cop, stepRest>>

StepMulU32(c) ==
    LET k == cop[c]
        l == cloc[c]
        r == cres[c]
    IN /\ k.op = "mul_u32_ap"
       /\ cpc[c] # "done"
       /\ CASE cpc[c] = "entry" ->
                 IF k.a = ZERO32 \/ k.b = ZERO32
                 THEN Move(c, "done", l, [r EXCEPT !.u = ZERO32])
                 ELSE Move(c, "msb_a", [l EXCEPT !.e = 0], r)
            [] cpc[c] = "msb_a" ->
                 LET t == fast_msb32_step(k.a, l.e)
                 IN Move(c, IF t[1] THEN "tail_a" ELSE "msb_a",
                         [l EXCEPT !.e = t[2]], r)
            [] cpc[c] = "tail_a" ->
                 Move(c, "msb_b",
                      [l EXCEPT !.la = log2_q8_tail(k.a, l.e), !.e = 0], r)
            [] cpc[c] = "msb_b" ->
                 LET t == fast_msb32_step(k.b, l.e)
                 IN Move(c, IF t[1] THEN "tail_b" ELSE "msb_b",
                         [l EXCEPT !.e = t[2]], r)
            [] cpc[c] = "tail_b" ->
                 Move(c, "exp", [l EXCEPT !.lb = log2_q8_tail(k.b, l.e)], r)
            [] cpc[c] = "exp" ->
                 Move(c, "done", l, [r EXCEPT !.u = exp2_q8(l.la + l.lb)])

StepFastMulF32(c) ==
    LET k == cop[c]
        l == cloc[c]
        r == cres[c]
    IN /\ k.op = "fast_mul_f32"
       /\ cpc[c] # "done"
       /\ CASE cpc[c] = "entry" ->
                 IF AbsIsZero(k.x) \/ AbsIsZero(k.y)
                 THEN Move(c, "done", l, [r EXCEPT !.u = FZERO])
                 ELSE Move(c, "log_a", l, r)
            [] cpc[c] = "log_a" ->
                 Move(c, "log_b", [l EXCEPT !.la = btm_log2(k.x.m, k.tab)], r)
            [] cpc[c] = "log_b" ->
                 Move(c, "exp", [l EXCEPT !.lb = btm_log2(k.y.m, k.tab)], r)
            [] cpc[c] = "exp" ->
                 Move(c, "done", l,
                      [r EXCEPT !.u = fast_mul_f32_tail(k.x, k.y, l.la, l.lb,
                                                        k.tab)])

StepMatMul(c) ==
    LET k == cop[c]
        l == cloc[c]
        r == cres[c]
        n == Dim(k.op)
    IN /\ k.op \in {"mat3_mul_mat", "mat4_mul"}
       /\ cpc[c] # "done"
       /\ CASE cpc[c] = "entry" ->
                 Move(c, "outer",
                      [l EXCEPT !.i = 0,
                                !.R = [i \in 0..(n - 1) |->
                                          [j \in 0..(n - 1) |-> 0]]], r)
            [] cpc[c] = "outer" ->
                 IF l.i < n
                 THEN Move(c, "inner", [l EXCEPT !.row = k.A[l.i], !.j = 0], r)
                 ELSE Move(c, "ret", l, r)
            [] cpc[c] = "inner" ->
                 IF l.j < n
                 THEN Move(c, "inner",
                           [l EXCEPT !.R[l.i][l.j] = MatEntry(l.row, k.B, l.j, n),
                                     !.j = l.j + 1], r)
                 ELSE Move(c, "outer", [l EXCEPT !.i = l.i + 1], r)
            [] cpc[c] = "ret" ->
                 Move(c, "done", l, [r EXCEPT !.R = l.R])

Step(c) == StepMulU32(c) \/ StepFastMulF32(c) \/ StepMatMul(c)

NextStep == \E c \in Callers : Step(c)

InitStep == InitStepWith(Calls)

InitStepFair == InitStepWith(FairCalls)

SpecStep == InitStep /\ [][NextStep]_vars

\* every caller that can execute a statement eventually executes one
SpecStepFair ==
    InitStepFair /\ [][NextStep]_vars /\ \A c \in Callers : WF_vars(Step(c))

\* the number of statements an operation executes at most, fixed by the
\* operation alone
StepBound(op) ==
    CASE op = "mul_u32_ap" -> 6
      [] op = "fast_mul_f32" -> 4
      [] op \in {"mat3_mul_mat", "mat4_mul"} ->
            2 + (Dim(op) + 1) + Dim(op) * (Dim(op) + 1)
      [] OTHER -> 0

AllDone == \A c \in Callers : cpc[c] = "done"

StepsBounded ==
    \A c \in Callers :
        /\ csteps[c] <= StepBound(cop[c].op)
        /\ (cpc[c] = "done" /\ cop[c].op \in {"mat3_mul_mat", "mat4_mul"}) =>
               csteps[c] = StepBound(cop[c].op)

\* C18: every core operation terminates after a number of steps that does not
\* depend on operand magnitude: the statements executed never exceed a count
\* fixed by the operation, the only loops being the 3x3 and 4x4 matrix loops
C18_BoundedSteps == []StepsBounded /\ <>AllDone

C18_Witness ==
    /\ AllDone
    /\ cop[1].op = "mul_u32_ap" /\ cop[1].a = ONES32 /\ cop[1].b = ONES32
    /\ csteps[1] = 6
    /\ cop[2].op = "mat4_mul" /\ cop[2].A = PatternMat(2, 1)
    /\ csteps[2] = 27

C18_WitnessSmallOperand ==
    /\ AllDone
    /\ cop[1].op = "mul_u32_ap" /\ cop[1].a = ToU32(3) /\ csteps[1] = 6
    /\ cop[2].op = "mat3_mul_mat" /\ csteps[2] = 18

\* the value a call returns when no other call is in progress
Sequential(k) ==
    CASE k.op = "mul_u32_ap" -> [NoReturn EXCEPT !.u = mul_u32_ap(k.a, k.b)]
      [] k.op = "fast_mul_f32" ->
            [NoReturn EXCEPT !.u = fast_mul_f32(k.x, k.y, k.tab).ret]
      [] k.op = "mat3_mul_mat" -> [NoReturn EXCEPT !.R = mat3_mul_mat(k.A, k.B)]
      [] k.op = "mat4_mul" -> [NoReturn EXCEPT !.R = mat4_mul(k.A, k.B)]
      [] OTHER -> NoReturn

\* C19: no core operation writes to state shared between calls, so each call
\* returns a function of its arguments and the tables: two callers interleaved
\* in any order obtain the results they obtain when run one after the other
C19_InterleavingInvisible ==
    \A c \in Callers :
        /\ cpc[c] = "done" => cres[c] = Sequential(cop[c])
        /\ \A d \in Callers \ {c} :
              (cpc[c] = "entry" /\ cpc[d] # "entry") =>
                  cloc[c] = NoLocal /\ cres[c] = NoReturn

C19_Witness ==
    /\ AllDone
    /\ cop[1].op = "mul_u32_ap" /\ cop[1].a = ToU32(100) /\ cop[1].b = ToU32(200)
    /\ cres[1].u = mul_u32_ap(ToU32(100), ToU32(200))
    /\ cop[2].op = "mul_u32_ap" /\ cop[2].a = ToU32(3) /\ cop[2].b = ToU32(1000)
    /\ cres[2].u = mul_u32_ap(ToU32(3), ToU32(1000))
    /\ cres[1].u # cres[2].u

C19_WitnessMidCall ==
    /\ cpc[1] = "exp" /\ cpc[2] = "tail_a"
    /\ cop[1].op = "mul_u32_ap" /\ cop[2].op = "mul_u32_ap"
    /\ cop[1].a # cop[2].a
    /\ cloc[1].la # 0 /\ cloc[2].la = 0

C19_WitnessMatrixAndFloat ==
    /\ AllDone
    /\ cop[1].op = "mat4_mul" /\ cop[1].A = PatternMat(2, 1)
    /\ cres[1].R = mat4_mul(PatternMat(2, 1), PatternMat(5, 5))
    /\ cop[2].op = "fast_mul_f32" /\ cop[2].x.e = 128 /\ cop[2].y.e = 254
    /\ cres[2].u = fast_mul_f32(cop[2].x, cop[2].y, cop[2].tab).ret

----------------------------------------------------------------------------
(* log2_q8: the generic and the byte-wise form *)

Log2Inputs ==
    MsbInputs
    \cup {U32(h, l) : h \in {1, 255, 256, 43690}, l \in {0, 21845, 65535}}
    \cup {U32(0, l) : l \in {129, 255, 257, 383, 33023, 43690}}

unaryRest == <<intVars, floatVars, ringVars,
               matVars, pipeVars, fixVars, trigVars, stepVars, msbVars>>

UnaryOthersIdle ==
    /\ IntIdle /\ FloatIdle /\ RingIdle
    /\ MatIdle /\ PipeIdle /\ FixIdle /\ TrigIdle /\ StepIdle /\ MsbIdle

InitLog2 ==
    /\ uarg \in Log2Inputs
    /\ uop = "none"
    /\ ures = 0
    /\ UnaryOthersIdle

Log2Q8 ==
    /\ ures' = log2_q8(uarg)
    /\ uop' = "log2_q8"
    /\ UNCHANGED <<uarg, unaryRest>>

Log2Q8Bw ==
    /\ ures' = log2_q8_bw(uarg)
    /\ uop' = "log2_q8_bw"
    /\ UNCHANGED <<uarg, unaryRest>>

NextLog2 == Log2Q8 \/ Log2Q8Bw

SpecLog2 == InitLog2 /\ [][NextLog2]_vars

\* the 8 bits of v from bit e downwards, zeros below bit 0
Top8(v, e) ==
    LET bit(k) == IF e - k >= 0 THEN BitAt(v, e - k) ELSE 0
    IN 128 * bit(0) + 64 * bit(1) + 32 * bit(2) + 16 * bit(3)
       + 8 * bit(4) + 4 * bit(5) + 2 * bit(6) + bit(7)

\* C21: for nonzero v, log2_q8(v) = ((e - 7) << 8) + log2_table_q8[m] with
\* e = floor(log2 v) and m the 8 most significant bits of v, m in 128..255;
\* log2_q8(0) = INT32_MIN; the byte-wise and the generic log2_q8 agree
C21_Log2Normalised ==
    /\ uop \in {"log2_q8", "log2_q8_bw"} =>
          IF uarg = ZERO32 THEN ures = INT32_MIN
          ELSE LET e == FloorLog2(uarg)
                   m == Top8(uarg, e)
               IN /\ m \in 128..255
                  /\ ures = (e - 7) * 256 + log2_table_q8[m]
    /\ uop # "none" => log2_q8(uarg) = log2_q8_bw(uarg)

C21_Witness ==
    /\ uop = "log2_q8_bw" /\ uarg = U32(43690, 21845)
    /\ ures = 24 * 256 + log2_table_q8[170]

C21_WitnessSmall ==
    /\ uop = "log2_q8" /\ uarg = ToU32(3)
    /\ ures = (1 - 7) * 256 + log2_table_q8[192]

C21_WitnessZero ==
    /\ uop = "log2_q8_bw" /\ uarg = ZERO32 /\ ures = INT32_MIN

----------------------------------------------------------------------------
(* exp2_q8: the generic and the byte-wise form *)

Exp2IntParts ==
    {-8388608, -8388607, -65536, -257, -256, -249, -248, -247, -100, -25, -24,
     -23, -22, -9, -8, -1, 0, 1, 7, 8, 9, 15, 16, 23, 24, 30, 31, 32, 33, 100,
     8388607}

Exp2Fractions == {0, 1, 128, 255}

\* int32_t y with integer part i and fraction f
Exp2Inputs == {i * 256 + f : i \in Exp2IntParts, f \in Exp2Fractions}

InitExp2 ==
    /\ uarg \in Exp2Inputs
    /\ uop = "none"
    /\ ures = 0
    /\ UnaryOthersIdle

Exp2Q8 ==
    /\ ures' = exp2_q8(uarg)
    /\ uop' = "exp2_q8"
    /\ UNCHANGED <<uarg, unaryRest>>

Exp2Q8Bw ==
    /\ ures' = exp2_q8_bw(uarg)
    /\ uop' = "exp2_q8_bw"
    /\ UNCHANGED <<uarg, unaryRest>>

NextExp2 == Exp2Q8 \/ Exp2Q8Bw

SpecExp2 == InitExp2 /\ [][NextExp2]_vars

\* floor(t * 2^(i - 8)) as uint32_t, for t <= 511 and i <= 31
ScaledEntry(t, i) ==
    IF i >= 24 THEN U32(t * Pow2(i - 24), 0)
    ELSE IF i >= 8 THEN ToU32(t * Pow2(i - 8))
    ELSE IF 8 - i <= 9 THEN ToU32(t \div Pow2(8 - i))
    ELSE ZERO32

Exp2Expected(y) ==
    LET i == y \div 256
        f == y % 256
    IN IF y = INT32_MIN THEN ZERO32
       ELSE IF i > 31 THEN ONES32
       ELSE ScaledEntry(exp2_table_q8[f], i)

\* C22: for y other than the sentinel, i = y >> 8, f = y & 255, exp2_q8(y) =
\* floor(exp2_table_q8[f] * 2^(i - 8)) when i <= 31, no high-order bit lost,
\* and 0xFFFFFFFF when i > 31; 0 for every i <= -24; exp2_q8(sentinel) = 0
C22_Exp2Scaled ==
    /\ \A f \in 0..255 : exp2_table_q8[f] <= 511
    /\ uop \in {"exp2_q8", "exp2_q8_bw"} =>
          /\ ures = Exp2Expected(uarg)
          /\ (uarg \div 256 <= -24 => ures = ZERO32)

\* the generic form alone
C22_GenericExp2Scaled ==
    uop = "exp2_q8" => ures = Exp2Expected(uarg)

\* uint8_t s = 8 - ip is 0 for ip = -248: the table entry is returned unshifted
C22_ShiftCountWraps ==
    /\ uop = "exp2_q8_bw" /\ uarg = (-248) * 256
    /\ ures = ToU32(exp2_table_q8[0]) /\ ures = ToU32(256)

C22_GenericTopBit ==
    /\ uop = "exp2_q8" /\ uarg = 31 * 256 + 255
    /\ ures = U32(511 * 128, 0)

----------------------------------------------------------------------------
(* BTM lookups: index split and clamp *)

\* the coarse and the fine table index of a 14-bit idx
btm_split(idx) == <<idx \div 32, BitOr((idx \div 1024) * 32, idx % 32)>>

\* 23-bit mantissas; those below 2^16 are also passed as 16-bit fractions
BtmArgs ==
    {0, 1, 3, 4, 127, 128, 511, 512, 4095, 16384, 32767, 32768, 43690, 65535,
     65536, 1048575, 4194304, 5592405, 8388096, 8388607}

InitBtm ==
    /\ uarg \in [x : BtmArgs, tab : T1Profiles \X T2Profiles]
    /\ uop = "none"
    /\ ures = 0
    /\ UnaryOthersIdle

BtmLog2 ==
    LET idx == (uarg.x \div Pow2(23 - 14)) % HALF
        ix == btm_split(idx)
    IN /\ ures' = [idx |-> idx, i12 |-> ix[1], i13 |-> ix[2],
                   ret |-> btm_log2(uarg.x, uarg.tab)]
       /\ uop' = "btm_log2"
       /\ UNCHANGED <<uarg, unaryRest>>

BtmExp2 ==
    LET idx == uarg.x \div Pow2(16 - 14)
        ix == btm_split(idx)
    IN /\ uarg.x < HALF
       /\ ures' = [idx |-> idx, i12 |-> ix[1], i13 |-> ix[2],
                   ret |-> btm_exp2(uarg.x, uarg.tab)]
       /\ uop' = "btm_exp2"
       /\ UNCHANGED <<uarg, unaryRest>>

NextBtm == BtmLog2 \/ BtmExp2

SpecBtm == InitBtm /\ [][NextBtm]_vars

Clamp16(n) == IF n < 0 THEN 0 ELSE IF n > 65535 THEN 65535 ELSE n

\* C23: for every 23-bit mantissa given to btm_log2 and every 16-bit fraction
\* given to btm_exp2 the reduced index has 14 bits, the coarse index idx >> 5
\* and the fine index ((idx >> 10) << 5) | (idx & 31) lie in 0..511, and
\* T1 + T2 is clamped into 0..65535 before use, whatever the T2 entry is
C23_BtmIndicesAndClamp ==
    uop \in {"btm_log2", "btm_exp2"} =>
        LET idx == IF uop = "btm_log2" THEN uarg.x \div 512 ELSE uarg.x \div 4
            i12 == idx \div 32
            i13 == (idx \div 1024) * 32 + (idx % 32)
            sum == Clamp16(T1Table(uarg.tab[1])[i12] + T2Table(uarg.tab[2])[i13])
        IN /\ ures.idx = idx /\ idx \in 0..16383
           /\ ures.i12 = i12 /\ i12 \in 0..511
           /\ ures.i13 = i13 /\ i13 \in 0..511
           /\ ures.ret = (IF uop = "btm_log2" THEN sum ELSE sum * 128)

C23_Witness ==
    /\ uop = "btm_log2" /\ uarg.x = 8388607 /\ uarg.tab = <<"max", "max">>
    /\ ures.idx = 16383 /\ ures.i12 = 511 /\ ures.i13 = 511
    /\ ures.ret = 65535

C23_WitnessNegativeSum ==
    /\ uop = "btm_exp2" /\ uarg.x = 65535 /\ uarg.tab = <<"zero", "min">>
    /\ ures.i12 = 511 /\ ures.i13 = 511 /\ ures.ret = 0

C23_WitnessFineIndex ==
    /\ uop = "btm_exp2" /\ uarg.x = 43690 /\ uarg.tab = <<"ramp", "saw">>
    /\ ures.idx = 10922 /\ ures.i12 = 341 /\ ures.i13 = 330

----------------------------------------------------------------------------
(* Approximate signed division with a zero numerator *)

\* C24: q16_div_s_ap(0, b) = 0 for every b # 0, for |b| below 1.0 and for
\* |b| above 1.0 in Q16.16
C24_ZeroNumeratorGivesZero ==
    (qop = "q16_div_s_ap" /\ qa = 0 /\ qb # 0) => qres = ZERO32

\* log2_q8(0) - log2_q8(2.0) + (16 << 8) leaves the int32_t range and comes
\* back as a large positive logarithm; exp2_q8 saturates
C24_ZeroNumeratorSaturates ==
    /\ qop = "q16_div_s_ap" /\ qa = 0 /\ qb = 131072
    /\ qres = ONES32 /\ CastI32(qres) = -1

\* no overflow for |b| = 1 LSB: the result is 0
C24_ZeroByOneLsb ==
    /\ qop = "q16_div_s_ap" /\ qa = 0 /\ qb = -1 /\ qres = ZERO32

----------------------------------------------------------------------------
(* Square root and inverse square root by halving the logarithm *)

q16_inv_sqrt(x) ==
    IF x = ZERO32 THEN ONES32
    ELSE LET lx == log2_q8(x)
         IN exp2_q8(24 * Pow2(FMT_LOG_Q) - (lx \div 2))

\* the logarithm not halved
q16_sqrt_nohalf(x) ==
    IF x = ZERO32 THEN ZERO32
    ELSE LET lx == log2_q8(x)
         IN exp2_q8(lx + 8 * Pow2(FMT_LOG_Q))

q16_sqrt(x) ==
    IF x = ZERO32 THEN ZERO32
    ELSE LET lx == log2_q8(x)
         IN exp2_q8((lx \div 2) + 8 * Pow2(FMT_LOG_Q))

InitSqrt ==
    /\ uarg \in Log2Inputs
    /\ uop = "none"
    /\ ures = 0
    /\ UnaryOthersIdle

Q16Sqrt ==
    /\ ures' = q16_sqrt(uarg)
    /\ uop' = "q16_sqrt"
    /\ UNCHANGED <<uarg, unaryRest>>

Q16InvSqrt ==
    /\ ures' = q16_inv_sqrt(uarg)
    /\ uop' = "q16_inv_sqrt"
    /\ UNCHANGED <<uarg, unaryRest>>

NextSqrt == Q16Sqrt \/ Q16InvSqrt

SpecSqrt == InitSqrt /\ [][NextSqrt]_vars

\* C25: q16_sqrt(0) = 0 and q16_inv_sqrt(0) = 0xFFFFFFFF; for x = 2^(2k),
\* 0 <= k <= 15, q16_sqrt(x) = 2^(k+8) and q16_inv_sqrt(x) = 2^(24-k) exactly,
\* given log2_table_q8[128] = 1792 and exp2_table_q8[0] = 256
C25_SqrtOfEvenPowers ==
    /\ log2_table_q8[128] = 1792 /\ exp2_table_q8[0] = 256
    /\ (uop = "q16_sqrt" /\ uarg = ZERO32) => ures = ZERO32
    /\ (uop = "q16_inv_sqrt" /\ uarg = ZERO32) => ures = ONES32
    /\ \A k \in 0..15 :
          uarg = WithBit(ZERO32, 2 * k) =>
              /\ uop = "q16_sqrt" => ures = WithBit(ZERO32, k + 8)
              /\ uop = "q16_inv_sqrt" => ures = WithBit(ZERO32, 24 - k)

C25_Witness ==
    /\ uop = "q16_sqrt" /\ uarg = ToU32(4 * 65536) /\ ures = ToU32(2 * 65536)

C25_WitnessInverse ==
    /\ uop = "q16_inv_sqrt" /\ uarg = ToU32(4 * 65536) /\ ures = ToU32(32768)

C25_WitnessLargest ==
    /\ uop = "q16_inv_sqrt" /\ uarg = U32(16384, 0) /\ ures = ToU32(512)

C25_WitnessZero ==
    /\ uop = "q16_inv_sqrt" /\ uarg = ZERO32 /\ ures = ONES32

\* ---------------------------------------------------------------------
\* mat3_rotation_euler against the product of the three axis rotations

\* <<sine, cosine>> values in Q16.16 handed to the rotation builder
TrigPairs ==
    { <<0, 65534>>, <<65534, 0>>, <<-65534, 0>>, <<46340, 46340>>,
      <<46340, 37643>>, <<-21341, -62312>>, <<-4673, 56756>>,
      <<Q16_ONE, -Q16_ONE>> }

InitEuler ==
    /\ uarg \in [x : TrigPairs, y : TrigPairs, z : TrigPairs]
    /\ uop = "none"
    /\ ures = 0
    /\ UnaryOthersIdle

\* the rotations about one axis, as matrices in Q16.16
AxisX(s, c) ==
    [i \in 0..2 |-> [j \in 0..2 |->
        CASE i = 0 /\ j = 0 -> Q16_ONE
          [] i = 1 /\ j = 1 -> c
          [] i = 1 /\ j = 2 -> -s
          [] i = 2 /\ j = 1 -> s
          [] i = 2 /\ j = 2 -> c
          [] OTHER -> 0]]

AxisY(s, c) ==
    [i \in 0..2 |-> [j \in 0..2 |->
        CASE i = 0 /\ j = 0 -> c
          [] i = 0 /\ j = 2 -> s
          [] i = 1 /\ j = 1 -> Q16_ONE
          [] i = 2 /\ j = 0 -> -s
          [] i = 2 /\ j = 2 -> c
          [] OTHER -> 0]]

AxisZ(s, c) ==
    [i \in 0..2 |-> [j \in 0..2 |->
        CASE i = 0 /\ j = 0 -> c
          [] i = 0 /\ j = 1 -> -s
          [] i = 1 /\ j = 0 -> s
          [] i = 1 /\ j = 1 -> c
          [] i = 2 /\ j = 2 -> Q16_ONE
          [] OTHER -> 0]]

\* Rz . (Ry . Rx) through mat3_mul_mat
ComposedRotation(t) ==
    mat3_mul_mat(AxisZ(t.z[1], t.z[2]),
                 mat3_mul_mat(AxisY(t.y[1], t.y[2]), AxisX(t.x[1], t.x[2])))

\* the matrix of mat3_rotation_euler, rows and columns numbered from 0
EulerOf(t) ==
    LET M == EulerEntries(t.x[1], t.x[2], t.y[1], t.y[2], t.z[1], t.z[2])
    IN [i \in 0..2 |-> [j \in 0..2 |-> M[i + 1][j + 1]]]

Mat3RotationEuler ==
    /\ ures' = EulerOf(uarg)
    /\ uop' = "mat3_rotation_euler"
    /\ UNCHANGED <<uarg, unaryRest>>

Mat3Composed ==
    /\ ures' = ComposedRotation(uarg)
    /\ uop' = "mat3_mul_mat"
    /\ UNCHANGED <<uarg, unaryRest>>

NextEuler == Mat3RotationEuler \/ Mat3Composed

SpecEuler == InitEuler /\ [][NextEuler]_vars

\* largest entry-wise distance of two 3x3 matrices
MatDistance(A, B) ==
    CHOOSE d \in {Abs(A[i][j] - B[i][j]) : i \in 0..2, j \in 0..2} :
        \A i \in 0..2, j \in 0..2 : Abs(A[i][j] - B[i][j]) <= d

\* C26: for sine and cosine values of magnitude at most 65536, every entry
\* of mat3_rotation_euler is within 4 LSB of the same entry of
\* mat3_mul_mat(Rz, mat3_mul_mat(Ry, Rx)) built from the same values, and
\* entry [2][0] is exactly minus the sine of ay
C26_EulerIsProduct ==
    uop = "mat3_rotation_euler" =>
        /\ MatDistance(ures, ComposedRotation(uarg)) <= 4
        /\ ures[2][0] = -uarg.y[1]
        /\ ComposedRotation(uarg)[2][0] = -uarg.y[1]

\* all three angles oblique, and the two matrices differ in some entry
C26_Witness ==
    /\ uop = "mat3_rotation_euler"
    /\ uarg = [x |-> <<46340, 37643>>, y |-> <<-21341, -62312>>,
               z |-> <<-4673, 56756>>]
    /\ MatDistance(ures, ComposedRotation(uarg)) = 2
    /\ ures[2][0] = 21341

\* a quarter turn about y alone
C26_WitnessQuarterTurn ==
    /\ uop = "mat3_rotation_euler"
    /\ uarg = [x |-> <<0, 65534>>, y |-> <<65534, 0>>, z |-> <<0, 65534>>]
    /\ ures[2][0] = -65534 /\ ures[0][2] = 65530

\* values of full magnitude 65536
C26_WitnessFullScale ==
    /\ uop = "mat3_rotation_euler"
    /\ uarg = [x |-> <<Q16_ONE, -Q16_ONE>>, y |-> <<Q16_ONE, -Q16_ONE>>,
               z |-> <<Q16_ONE, -Q16_ONE>>]
    /\ ures[2][0] = -Q16_ONE

\* ---------------------------------------------------------------------
\* The table literals of 8q8.ino

\* the initialisers of log2_table[256] as written, in order
Log2Initialisers ==
  <<0, 0, 0, 0, 0, 0, 0, 0, 0, 0, 0, 0, 0, 0, 0, 0,
    0, 0, 0, 0, 0, 0, 0, 0, 0, 0, 0, 0, 0, 0, 0, 0,
    0, 0, 0, 0, 0, 0, 0, 0, 0, 0, 0, 0, 0, 0, 0, 0,
    0, 0, 0, 0, 0, 0, 0, 0, 0, 0, 0, 0, 0, 0, 0, 0,
    1792, 1808, 1822, 1836, 1850, 1864, 1877, 1891, 1904, 1916, 1929, 1941, 1953, 1965, 1976, 1988,
    1999, 2010, 2021, 2031, 2041, 2051, 2061, 2070, 2079, 2089, 2097, 2106, 2114, 2123, 2131, 2138,
    2146, 2154, 2161, 2168, 2175, 2182, 2189, 2196, 2202, 2209, 2215, 2221, 2227, 2233, 2239, 2245,
    2250, 2256, 2261, 2267, 2272, 2277, 2282, 2287, 2292, 2296, 2301, 2306, 2310, 2315, 2319, 2323,
    2328, 2332, 2336, 2340, 2344, 2348, 2352, 2356, 2360, 2363, 2367, 2371, 2374, 2378, 2381, 2385,
    2388, 2391, 2395, 2398, 2401, 2404, 2407, 2410, 2413, 2416, 2419, 2422, 2424, 2427, 2430, 2432,
    2435, 2438, 2440, 2443, 2445, 2448, 2450, 2452, 2455, 2457, 2459, 2462, 2464, 2466, 2468, 2470,
    2472, 2474, 2476, 2478, 2480, 2482, 2484, 2486, 2487, 2489, 2491, 2493, 2494, 2496, 2498, 2500>>

\* log2_table[256]: the initialisers fill the array from index 0 and the
\* elements after the last initialiser are zero
log2_table ==
    [m \in 0..255 |->
        IF m < Len(Log2Initialisers) THEN Log2Initialisers[m + 1] ELSE 0]

\* the initialisers of exp2_table[256] as written, in order
Exp2Initialisers ==
  <<256, 257, 258, 259, 260, 261, 262, 263, 264, 265, 266, 267, 268, 269, 270, 271,
    272, 273, 275, 276, 277, 278, 279, 281, 282, 283, 284, 286, 287, 288, 289, 291,
    292, 293, 295, 296, 297, 299, 300, 301, 303, 304, 306, 307, 308, 310, 311, 313,
    314, 316, 317, 319, 320, 322, 323, 325, 326, 328, 329, 331, 333, 334, 336, 337,
    339, 341, 342, 344, 346, 347, 349, 351, 353, 354, 356, 358, 360, 361, 363, 365,
    367, 369, 370, 372, 374, 376, 378, 380, 381, 383, 385, 387, 389, 391, 393, 395,
    397, 399, 401, 403, 405, 407, 409, 411, 413, 415, 417, 419, 421, 423, 425, 428,
    430, 432, 434, 436, 438, 441, 443, 445, 447, 449, 452, 454, 456, 458, 461, 463,
    465, 468, 470, 472, 475, 477, 479, 482, 484, 487, 489, 492, 494, 497, 499, 502,
    504, 507, 509, 512, 515, 517, 520, 522, 525, 528, 530, 533, 536, 538, 541, 544,
    547, 549, 552, 555, 558, 561, 563, 566, 569, 572, 575, 578, 581, 584, 587, 590,
    593, 596, 599, 602, 605, 608, 611, 614, 617, 620, 623, 626, 630, 633, 636, 639,
    642, 645, 649, 652, 655, 658, 662, 665, 668, 672, 675, 678, 682, 685, 688, 692,
    695, 699, 702, 705, 709, 712, 716, 719, 723, 726, 730, 733, 737, 741, 744, 748,
    751, 755, 759, 762, 766, 770, 774, 777, 781, 785, 789, 792, 796, 800, 804, 808,
    812, 815, 819, 823, 827, 831, 835, 839, 843, 847, 851, 855, 859, 863, 867, 871>>

exp2_table ==
    [f \in 0..255 |->
        IF f < Len(Exp2Initialisers) THEN Exp2Initialisers[f + 1] ELSE 0]

InitTable ==
    /\ uarg \in 0..255
    /\ uop = "none"
    /\ ures = 0
    /\ UnaryOthersIdle

\* read_word_progmem(&log2_table[uarg])
ReadLog2Table ==
    /\ ures' = log2_table[uarg]
    /\ uop' = "log2_table"
    /\ UNCHANGED <<uarg, unaryRest>>

\* read_word_progmem(&exp2_table[uarg])
ReadExp2Table ==
    /\ ures' = exp2_table[uarg]
    /\ uop' = "exp2_table"
    /\ UNCHANGED <<uarg, unaryRest>>

NextTable == ReadLog2Table \/ ReadExp2Table

SpecTable == InitTable /\ [][NextTable]_vars

\* C27: log2_table is non-decreasing over 128..255 and exp2_table over
\* 0..255, log2_table[m] = round(256 * log2(m)) for m in 128..255 and
\* exp2_table[f] = round(256 * 2^(f/256)) for f in 0..255
C27_TablesRoundedAndMonotonic ==
    /\ (uop = "log2_table" /\ uarg \in 128..255) =>
           /\ ures = Log2Ideal[uarg - 127]
           /\ uarg > 128 => log2_table[uarg - 1] <= ures
    /\ uop = "exp2_table" =>
           /\ ures = Exp2Ideal[uarg + 1]
           /\ uarg > 0 => exp2_table[uarg - 1] <= ures

\* the part of C27 that the literals do satisfy: exp2_table never decreases
C27_Exp2Monotonic ==
    (uop = "exp2_table" /\ uarg > 0) => exp2_table[uarg - 1] <= ures

\* the entry for the mantissa 128 is not 1792
C27_Log2FirstEntryOff ==
    /\ uop = "log2_table" /\ uarg = 128 /\ ures = 2328

\* the entries from index 192 on have no initialiser: the table falls to 0
C27_Log2FallsToZero ==
    /\ uop = "log2_table" /\ uarg = 192 /\ ures = 0
    /\ log2_table[191] = 2500

\* the last entry of exp2_table is 871, the rounded value is 511
C27_Exp2LastEntryOff ==
    /\ uop = "exp2_table" /\ uarg = 255 /\ ures = 871
    /\ Exp2Ideal[256] = 511

\* ---------------------------------------------------------------------
\* Approximate unsigned Q16.16 multiply: FMT_Fixed.h and FMT16.h

\* FMT::q16_mul_u_ap of FMT_Fixed.h
q16_mul_u_ap(a, b) ==
    IF a = ZERO32 \/ b = ZERO32 THEN ZERO32
    ELSE exp2_q8(Sub32(Add32(log2_q8(a), log2_q8(b)), 16 * Pow2(FMT_LOG_Q)))

\* FastMath::exp2_q8 of FMT16.h: the product v << ip is a uint32_t
FastMath_exp2_q8(y) ==
    IF y = INT32_MIN THEN ZERO32
    ELSE LET ip == y \div Pow2(FMT_LOG_Q)
             fr == y % Pow2(FMT_LOG_Q)
             v  == ToU32(exp2_table_q8[fr])
         IN IF ip >= 0
            THEN IF ip > 24 THEN ONES32
                 ELSE Shr32(Shl32(v, ip), FMT_LOG_Q)
            ELSE LET s == FMT_LOG_Q - ip
                 IN IF s >= 31 THEN ZERO32 ELSE Shr32(v, s)

\* FastMath::q16_mul_u_ap of FMT16.h: the rebasing constant is subtracted
\* and added again
FastMath_q16_mul_u_ap(a, b) ==
    IF a = ZERO32 \/ b = ZERO32 THEN ZERO32
    ELSE FastMath_exp2_q8(
             Add32(Sub32(Add32(log2_q8(a), log2_q8(b)),
                         Q16_S * Pow2(FMT_LOG_Q)),
                   Q16_S * Pow2(FMT_LOG_Q)))

MulApOperands ==
    {WithBit(ZERO32, k) : k \in 0..31}
    \cup {ZERO32, ToU32(3), ToU32(98304), U32(1, 32768), ONES32}

InitMulAp ==
    /\ uarg \in MulApOperands \X MulApOperands
    /\ uop = "none"
    /\ ures = 0
    /\ UnaryOthersIdle

Q16MulUAp ==
    /\ ures' = q16_mul_u_ap(uarg[1], uarg[2])
    /\ uop' = "FMT_Fixed"
    /\ UNCHANGED <<uarg, unaryRest>>

FastMathQ16MulUAp ==
    /\ ures' = FastMath_q16_mul_u_ap(uarg[1], uarg[2])
    /\ uop' = "FMT16"
    /\ UNCHANGED <<uarg, unaryRest>>

NextMulAp == Q16MulUAp \/ FastMathQ16MulUAp

SpecMulAp == InitMulAp /\ [][NextMulAp]_vars

\* the result for 2^i times 2^j is 2^(i+j-16) whenever 16 <= i+j <= 47
PowersExact(op) ==
    \A i \in 0..31, j \in 0..31 :
        (/\ uop = op
         /\ uarg = <<WithBit(ZERO32, i), WithBit(ZERO32, j)>>
         /\ 16 <= i + j /\ i + j <= 47)
        => ures = WithBit(ZERO32, i + j - 16)

\* C28: given log2_table_q8[128] = 1792 and exp2_table_q8[0] = 256,
\* q16_mul_u_ap(2^i, 2^j) = 2^(i+j-16) exactly whenever 16 <= i+j <= 47,
\* in FMT_Fixed.h and in FMT16.h alike
C28_PowersOfTwoExact ==
    /\ log2_table_q8[128] = 1792 /\ exp2_table_q8[0] = 256
    /\ PowersExact("FMT_Fixed")
    /\ PowersExact("FMT16")

\* the half of C28 about FMT_Fixed.h
C28_FixedPowersOfTwoExact ==
    /\ log2_table_q8[128] = 1792 /\ exp2_table_q8[0] = 256
    /\ PowersExact("FMT_Fixed")

\* FMT16.h: 1.0 times 1.0 saturates
C28_OneTimesOneSaturates ==
    /\ uop = "FMT16"
    /\ uarg = <<ToU32(Q16_ONE), ToU32(Q16_ONE)>>
    /\ ures = ONES32

\* FMT16.h: 2^8 times 2^8 is 2^16 instead of 2^0
C28_NotScaledBack ==
    /\ uop = "FMT16"
    /\ uarg = <<ToU32(256), ToU32(256)>>
    /\ ures = ToU32(Q16_ONE)

\* FMT16.h: 2^12 times 2^12 is 0, the shifted entry leaving 32 bits
C28_ShiftedOut ==
    /\ uop = "FMT16"
    /\ uarg = <<ToU32(4096), ToU32(4096)>>
    /\ ures = ZERO32

\* FMT_Fixed.h at the top of the range: 2^31 times 2^16 is 2^31
C28_FixedTopOfRange ==
    /\ uop = "FMT_Fixed"
    /\ uarg = <<WithBit(ZERO32, 31), ToU32(Q16_ONE)>>
    /\ ures = WithBit(ZERO32, 31)

\* ---------------------------------------------------------------------
\* The exp2 step of 8q8.ino and of FMT16.h at large integer parts

\* fast_exp2_from_q8_8 of 8q8.ino: the values the call can return.  A shift
\* count of 32 or more is undefined: the shift yields 0 where it is done
\* bit by bit and uses the count modulo 32 where the machine masks it.
Ino_fast_exp2_from_q8_8(log_q8_8) ==
    IF log_q8_8 <= -32768 THEN {ZERO32}
    ELSE LET integer == log_q8_8 \div 256
             frac == log_q8_8 % 256
             exp_frac == ToU32(exp2_table[frac])
         IN IF integer >= 31 THEN {ONES32}
            ELSE IF integer >= 0 THEN {Shr32(Shl32(exp_frac, integer), 8)}
            ELSE LET shift == -integer
                 IN IF 8 + shift < 32 THEN {Shr32(exp_frac, 8 + shift)}
                    ELSE {ZERO32, Shr32(exp_frac, (8 + shift) % 32)}

WrapIntParts == (-26..33) \cup {-129, -128, -127}

WrapFractions == {0, 1, 48, 128, 147, 255}

InitWrap ==
    /\ uarg \in {i * 256 + f : i \in WrapIntParts, f \in WrapFractions}
    /\ uop = "none"
    /\ ures = 0
    /\ UnaryOthersIdle

InoFastExp2 ==
    /\ ures' \in Ino_fast_exp2_from_q8_8(uarg)
    /\ uop' = "8q8"
    /\ UNCHANGED <<uarg, unaryRest>>

FastMathExp2 ==
    /\ ures' = FastMath_exp2_q8(uarg)
    /\ uop' = "FMT16"
    /\ UNCHANGED <<uarg, unaryRest>>

RefFastExp2 ==
    /\ ures' = fast_exp2_from_q8_8(uarg)
    /\ uop' = "fast_mul.h"
    /\ UNCHANGED <<uarg, unaryRest>>

NextWrap == InoFastExp2 \/ FastMathExp2 \/ RefFastExp2

SpecWrap == InitWrap /\ [][NextWrap]_vars

\* C29: fast_exp2_from_q8_8 of 8q8.ino returns floor(exp2_table[f] * 2^i / 256)
\* with no high-order bit lost for every integer part i in 0..30 (the value
\* always fits in 32 bits there), and exp2_q8 of FMT16.h does the same with
\* exp2_table_q8 for every integer part in 0..24
C29_NeverWraps ==
    LET i == uarg \div 256
        f == uarg % 256
    IN /\ (uop = "8q8" /\ i \in 0..30) => ures = ScaledEntry(exp2_table[f], i)
       /\ (uop = "FMT16" /\ i \in 0..24) =>
              ures = ScaledEntry(exp2_table_q8[f], i)

\* the reference form of tests/fast_mul.h loses no bit for i in 0..31
C29_ReferenceNeverWraps ==
    LET i == uarg \div 256
        f == uarg % 256
    IN (uop = "fast_mul.h" /\ i \in 0..31) =>
           ures = ScaledEntry(exp2_table_q8[f], i)

\* 8q8.ino: 2^24 comes back as 0
C29_InoWrapsToZero ==
    /\ uop = "8q8" /\ uarg = 24 * 256 /\ ures = ZERO32

\* 8q8.ino: with an entry of 512 or more the top bit is lost at i = 23
C29_InoWrapsAt23 ==
    /\ uop = "8q8" /\ uarg = 23 * 256 + 255
    /\ exp2_table[255] = 871
    /\ ures = ToU32(11763712)
    /\ ScaledEntry(871, 23) = ToU32(28540928)

\* FMT16.h: 2^24 comes back as 0
C29_FastMathWrapsAt24 ==
    /\ uop = "FMT16" /\ uarg = 24 * 256 /\ ures = ZERO32

\* FMT16.h: the largest fraction at i = 24 keeps only the low 8 bits of 511
C29_FastMathLosesTopBit ==
    /\ uop = "FMT16" /\ uarg = 24 * 256 + 255 /\ ures = U32(255, 0)

\* ---------------------------------------------------------------------
\* The sign of from_log32

\* C30: from_log32 never flips the sign: for sign = +1 the result is >= 0
\* and for sign = -1 the result is <= 0, whatever exp2_q8(l.lval) is
C30_SignPreserved ==
    rop = "from_log32" =>
        /\ rres.sign = 1 => rout >= 0
        /\ rres.sign = -1 => rout <= 0

\* the sign is kept whenever exp2_q8(l.lval) is below 2^31
C30_SignPreservedBelowTopBit ==
    (rop = "from_log32" /\ Hi(exp2_q8(rres.lval)) < 32768) =>
        /\ rres.sign = 1 => rout >= 0
        /\ rres.sign = -1 => rout <= 0

\* a positive value divided by zero converts to -1
C30_DivByZeroIsNegative ==
    /\ rop = "from_log32" /\ rn = 1
    /\ ra.sign = 1 /\ rb.sign = 0
    /\ rres = Log32(MaxLval(layout), 1)
    /\ rout = -1

\* a negative value divided by zero converts to +1
C30_NegativeDivByZeroIsPositive ==
    /\ rop = "from_log32" /\ rn = 1
    /\ ra.sign = -1 /\ rb.sign = 0
    /\ rres.sign = -1
    /\ rout = 1

\* 65536 times 65536 converts to -1
C30_LargeProductIsNegative ==
    /\ rop = "from_log32" /\ rn = 1
    /\ ra = Log32(4096, 1) /\ rb = Log32(4096, 1)
    /\ rres = Log32(8192, 1)
    /\ rout = -1

====
